---------------------------- MODULE Spec2Model ----------------------------
(***************************************************************************)
(* Model of kiljacken/tagger: the generated filter parser (yyParse and its *)
(* tables), the filter evaluator (Matches), the sqlite storage provider    *)
(* and the CLI commands that drive it.                                     *)
(***************************************************************************)
EXTENDS Integers, Sequences, FiniteSets, TLC

VARIABLES
    \* ---- yyParse (storage/sqlite.go:562-772) ----
    pc,         \* label yyParse is at: "yystack", "yynewstate", "yydefault", "ret0", "ret1"
    yystate,    \* current parser state
    yychar,     \* lookahead token code, -1 when none is held
    yyS,        \* the stack yyS[0..yyp] (entry i+1 holds yyS[i])
    yyVAL,      \* the value about to be stacked
    yylval,     \* the value the lexer fills in
    Errflag,    \* error recovery flag
    Nerrs,      \* number of errors
    errCalls,   \* number of calls of yylex.Error
    errAt,      \* the lookahead held when Error was called (-1 before)
    lexFilter,  \* yylex.(*lex).filter, the result field the goal action stores into
    goalRuns,   \* number of times the goal action has executed
    reduced,    \* the productions reduced by, in order
    consumed,   \* the tokens Lex has returned so far (end-of-input excluded)
    eof,        \* Lex has returned end-of-input
    \* ---- SqliteStorage (storage/sqlite.go:11-388) ----
    fileTbl,    \* the rows of table file
    tagTbl,     \* the rows of table tags
    last,       \* the last storage call: its arguments, its error and what it returned
    \* ---- one evaluation of Filter.Matches (filter.go) ----
    evFilter,   \* the filter evaluated
    evTags,     \* the tag list it is given
    evDone,     \* Matches has returned
    evResult,   \* what it returned (FALSE before the call)
    \* ---- concurrent calls of Matches on one tree (filter.go) ----
    shTree,     \* the filter tree the calls share
    thr,        \* per goroutine: its tag list, its call stack, the value the
                \* callee returned, whether the outermost call returned, and what
    \* ---- a call of ComparatorFromString (filter.go) ----
    cfsVal,     \* the string given
    cfsRet,     \* the Comparator returned (Invalid before the call)
    cfsDone     \* whether the call has returned

parseVars == <<pc, yystate, yychar, yyS, yyVAL, yylval, Errflag, Nerrs, errCalls,
               errAt, lexFilter, goalRuns, reduced, consumed, eof>>

storeVars == <<fileTbl, tagTbl, last>>

evalVars == <<evFilter, evTags, evDone, evResult>>

concVars == <<shTree, thr>>

cmpVars == <<cfsVal, cfsRet, cfsDone>>

vars == <<parseVars, storeVars, evalVars, concVars, cmpVars>>

-----------------------------------------------------------------------------
(* Bounds *)

\* the longest token stream the lexer hands out before end-of-input
MaxToks == 5

\* the longest tag list handed to UpdateFile
MaxTagList == 1

-----------------------------------------------------------------------------
(* Tags (tagger.go) *)

NewNamedTag(name) == [name |-> name, hasValue |-> FALSE, value |-> 0]

NewValueTag(name, value) == [name |-> name, hasValue |-> TRUE, value |-> value]

TagName(t) == t.name

HasValue(t) == t.hasValue

\* NamedTag.Value returns -1, ValueTag.Value the stored value
Value(t) == IF t.hasValue THEN t.value ELSE 0 - 1

-----------------------------------------------------------------------------
(* Filters (filter.go) *)

\* Comparator constants (iota)
Invalid == 0
Equals == 1
NotEquals == 2
LessThan == 3
GreaterThan == 4
LessThanOrEqual == 5
GreaterThanOrEqual == 6

\* the nil Filter interface value
NilFilter == [kind |-> "nil"]

NameFilter(name) == [kind |-> "Name", Name |-> name]

ComparinsonFilter(name, value, function) ==
    [kind |-> "Comparinson", Name |-> name, Value |-> value, Function |-> function]

AndFilter(filters) == [kind |-> "And", Filters |-> filters]

OrFilter(filters) == [kind |-> "Or", Filters |-> filters]

\* CompareSwitch with the case LessThanOrEqual comparing by < instead of <=
CompareSwitchStrictLessOrEqual(c, tag) ==
    CASE c.Function = Equals -> [decided |-> TRUE, result |-> Value(tag) = c.Value]
      [] c.Function = NotEquals -> [decided |-> TRUE, result |-> Value(tag) # c.Value]
      [] c.Function = LessThan -> [decided |-> TRUE, result |-> Value(tag) < c.Value]
      [] c.Function = GreaterThan -> [decided |-> TRUE, result |-> Value(tag) > c.Value]
      [] c.Function = LessThanOrEqual -> [decided |-> TRUE, result |-> Value(tag) < c.Value]
      [] c.Function = GreaterThanOrEqual -> [decided |-> TRUE, result |-> Value(tag) >= c.Value]
      [] OTHER -> [decided |-> FALSE, result |-> FALSE]

\* the switch of ComparinsonFilter.Matches on the first tag with the name;
\* no case of the switch taken: the loop goes on to the next tag
CompareSwitch(c, tag) ==
    CASE c.Function = Equals -> [decided |-> TRUE, result |-> Value(tag) = c.Value]
      [] c.Function = NotEquals -> [decided |-> TRUE, result |-> Value(tag) # c.Value]
      [] c.Function = LessThan -> [decided |-> TRUE, result |-> Value(tag) < c.Value]
      [] c.Function = GreaterThan -> [decided |-> TRUE, result |-> Value(tag) > c.Value]
      [] c.Function = LessThanOrEqual -> [decided |-> TRUE, result |-> Value(tag) <= c.Value]
      [] c.Function = GreaterThanOrEqual -> [decided |-> TRUE, result |-> Value(tag) >= c.Value]
      [] OTHER -> [decided |-> FALSE, result |-> FALSE]

\* CompareTag without the HasValue test: a Plain tag is compared by its Value()
CompareTagNoHasValue(c, tag) == CompareSwitch(c, tag)

CompareTag(c, tag) ==
    IF ~HasValue(tag)
    THEN [decided |-> TRUE, result |-> FALSE]
    ELSE CompareSwitch(c, tag)

\* NameMatchesFrom counting only the Plain entries with the name
RECURSIVE NameMatchesPlainOnly(_, _, _)
NameMatchesPlainOnly(n, tags, i) ==
    IF i > Len(tags) THEN FALSE
    ELSE IF TagName(tags[i]) = n.Name /\ ~HasValue(tags[i]) THEN TRUE
    ELSE NameMatchesPlainOnly(n, tags, i + 1)

RECURSIVE NameMatchesFrom(_, _, _)
NameMatchesFrom(n, tags, i) ==
    IF i > Len(tags) THEN FALSE
    ELSE IF TagName(tags[i]) = n.Name THEN TRUE
    ELSE NameMatchesFrom(n, tags, i + 1)

\* ComparinsonMatchesFrom going on to later entries when the first one with the
\* name does not satisfy the comparison
RECURSIVE ComparinsonMatchesAny(_, _, _)
ComparinsonMatchesAny(c, tags, i) ==
    IF i > Len(tags) THEN FALSE
    ELSE IF TagName(tags[i]) = c.Name /\ CompareTag(c, tags[i]).result THEN TRUE
    ELSE ComparinsonMatchesAny(c, tags, i + 1)

\* ComparinsonMatchesFrom giving up at the first entry that is not named as the
\* filter
ComparinsonMatchesHeadOnly(c, tags, i) ==
    IF i > Len(tags) THEN FALSE
    ELSE IF TagName(tags[i]) = c.Name /\ CompareTag(c, tags[i]).decided
         THEN CompareTag(c, tags[i]).result
         ELSE FALSE

RECURSIVE ComparinsonMatchesFrom(_, _, _)
ComparinsonMatchesFrom(c, tags, i) ==
    IF i > Len(tags) THEN FALSE
    ELSE IF TagName(tags[i]) = c.Name /\ CompareTag(c, tags[i]).decided
         THEN CompareTag(c, tags[i]).result
         ELSE ComparinsonMatchesFrom(c, tags, i + 1)

RECURSIVE Matches(_, _)
RECURSIVE AndMatchesFrom(_, _, _)
RECURSIVE OrMatchesFrom(_, _, _)

\* AndMatchesFrom looking at the child at i only
AndMatchesFirstChild(a, tags, i) ==
    IF i > Len(a.Filters) THEN TRUE
    ELSE Matches(a.Filters[i], tags)

\* AndMatchesFrom looking at no child after the second
AndMatchesTwoChildren(a, tags, i) ==
    IF i > Len(a.Filters) \/ i > 2 THEN TRUE
    ELSE IF ~Matches(a.Filters[i], tags) THEN FALSE
    ELSE AndMatchesFrom(a, tags, i + 1)

AndMatchesFrom(a, tags, i) ==
    IF i > Len(a.Filters) THEN TRUE
    ELSE IF ~Matches(a.Filters[i], tags) THEN FALSE
    ELSE AndMatchesFrom(a, tags, i + 1)

OrMatchesFrom(o, tags, i) ==
    IF i > Len(o.Filters) THEN FALSE
    ELSE IF Matches(o.Filters[i], tags) THEN TRUE
    ELSE OrMatchesFrom(o, tags, i + 1)

Matches(f, tags) ==
    CASE f.kind = "Name" -> NameMatchesFrom(f, tags, 1)
      [] f.kind = "Comparinson" -> ComparinsonMatchesFrom(f, tags, 1)
      [] f.kind = "And" -> AndMatchesFrom(f, tags, 1)
      [] f.kind = "Or" -> OrMatchesFrom(f, tags, 1)

-----------------------------------------------------------------------------
(* The generated parser: tokens and tables (storage/sqlite.go:405-493) *)

TAG == 57346
VAL == 57347
COMP == 57348
AND == 57349
OR == 57350
LPAREN == 57351
RPAREN == 57352

yyEofCode == 1
yyErrCode == 2
yyLast == 23
yyPrivate == 57344
yyFlag == -1000

\* a table entry by its 0-based index
At(table, i) == table[i + 1]

yyExca == <<-1, 1, 1, -1, -2, 0>>

yyAct == <<2, 10, 11, 9, 20, 10, 11, 12, 8, 14,
           13, 16, 17, 18, 19, 15, 21, 1, 7, 6,
           5, 4, 3>>

yyPact == <<-1, -1000, -2, -1000, 0, 2, -1000, -1000, -1, 9,
            -1, -1, -1, -1, -6, 11, -2, -2, -2, -2,
            -1000, -1000>>

yyPgo == <<0, 0, 22, 21, 20, 19, 18, 17>>

yyR1 == <<0, 7, 1, 1, 1, 1, 1, 2, 3, 3,
          4, 4, 5, 6>>

yyR2 == <<0, 1, 1, 1, 1, 1, 1, 3, 3, 3,
          3, 3, 3, 1>>

yyChk == <<-1000, -7, -1, -2, -3, -4, -5, -6, 9, 4,
           7, 8, 7, 8, -1, 6, -1, -1, -1, -1,
           10, 5>>

yyDef == <<0, -2, 1, 2, 3, 4, 5, 6, 0, 13,
           0, 0, 0, 0, 0, 0, 9, 11, 8, 10,
           7, 12>>

yyTok1 == <<1>>

yyTok2 == <<2, 3, 4, 5, 6, 7, 8, 9, 10>>

yyTok3 == <<0>>

\* the loop of yylex1 over yyTok3, c being the value the previous step left
RECURSIVE yyTok3Scan(_, _, _)
yyTok3Scan(char, i, c) ==
    IF i >= Len(yyTok3) THEN c
    ELSE IF At(yyTok3, i) = char THEN At(yyTok3, i + 1)
    ELSE yyTok3Scan(char, i + 2, At(yyTok3, i))

\* yylex1 without the replacement of code 0 by the unknown-token code
yylex1Raw(char) ==
    IF char <= 0 THEN At(yyTok1, 0)
    ELSE IF char < Len(yyTok1) THEN At(yyTok1, char)
    ELSE IF char >= yyPrivate /\ char < yyPrivate + Len(yyTok2)
         THEN At(yyTok2, char - yyPrivate)
    ELSE yyTok3Scan(char, 0, 0)

\* yylex1: the parser's code of the character Lex returned
yylex1(char) ==
    LET c == yylex1Raw(char)
    IN  IF c = 0 THEN At(yyTok2, 1) ELSE c

-----------------------------------------------------------------------------
(* The lexer behind yyLexer.Lex: what it returns and what it leaves in lval *)

TagNames == {"a", "b", "c"}
Vals == {1}
Comps == {Equals, GreaterThanOrEqual}

\* characters that are no token of the grammar
UnknownChars == {63, yyPrivate}

NoLex == [char |-> 0 - 1]

EofTok == [char |-> 0]

LexTokens ==
    [char : {TAG}, tag : TagNames] \cup [char : {VAL}, val : Vals]
        \cup [char : {COMP}, comp : Comps]
        \cup [char : {AND, OR, LPAREN, RPAREN} \cup UnknownChars]

\* what a call of Lex can return now: end-of-input for ever once returned
LexChoices ==
    IF eof \/ Len(consumed) >= MaxToks THEN {EofTok} ELSE LexTokens \cup {EofTok}

\* lval after Lex returned t
LexSet(lval, t) ==
    CASE t.char = TAG -> [lval EXCEPT !.tag = t.tag]
      [] t.char = VAL -> [lval EXCEPT !.val = t.val]
      [] t.char = COMP -> [lval EXCEPT !.comp = t.comp]
      [] OTHER -> lval

\* the zero yySymType
ZeroSym == [yys |-> 0, filter |-> NilFilter, tag |-> "", val |-> 0, comp |-> Invalid]

-----------------------------------------------------------------------------
(* yyParse (storage/sqlite.go:562-772) *)

ParseInit ==
    /\ pc = "yystack"
    /\ yystate = 0
    /\ yychar = 0 - 1
    /\ yyS = <<>>
    /\ yyVAL = ZeroSym
    /\ yylval = ZeroSym
    /\ Errflag = 0
    /\ Nerrs = 0
    /\ errCalls = 0
    /\ errAt = 0 - 1
    /\ lexFilter = NilFilter
    /\ goalRuns = 0
    /\ reduced = <<>>
    /\ consumed = <<>>
    /\ eof = FALSE

\* the token a step reads: none when a lookahead is held
ReadChoices == IF yychar < 0 THEN LexChoices ELSE {NoLex}

Lookahead(t) == IF t = NoLex THEN yychar ELSE yylex1(t.char)

LvalAfter(t) == IF t = NoLex THEN yylval ELSE LexSet(yylval, t)

ConsumedAfter(t) ==
    IF t = NoLex \/ t = EofTok THEN consumed ELSE Append(consumed, t)

EofAfter(t) == eof \/ t = EofTok

\* yystack: put a state and value onto the stack
yystack ==
    /\ pc = "yystack"
    /\ yyS' = Append(yyS, [yyVAL EXCEPT !.yys = yystate])
    /\ pc' = "yynewstate"
    /\ UNCHANGED <<yystate, yychar, yyVAL, yylval, Errflag, Nerrs, errCalls, errAt,
                   lexFilter, goalRuns, reduced, consumed, eof>>
    /\ UNCHANGED <<storeVars, evalVars, concVars, cmpVars>>

\* the state a valid shift on lookahead c leads to, -1 when there is none
\* ShiftTarget with no shift of the token AND in any state
ShiftTargetNoAnd(state, c) ==
    LET yyn == At(yyPact, state) + c
    IN  IF c = yylex1(AND) THEN 0 - 1
        ELSE IF yyn < 0 \/ yyn >= yyLast THEN 0 - 1
        ELSE IF At(yyChk, At(yyAct, yyn)) = c THEN At(yyAct, yyn)
        ELSE 0 - 1

ShiftTarget(state, c) ==
    LET yyn == At(yyPact, state) + c
    IN  IF yyn < 0 \/ yyn >= yyLast THEN 0 - 1
        ELSE IF At(yyChk, At(yyAct, yyn)) = c THEN At(yyAct, yyn)
        ELSE 0 - 1

\* yynewstate: shift the lookahead or go to the default action
yynewstate ==
    /\ pc = "yynewstate"
    /\ IF At(yyPact, yystate) <= yyFlag
       THEN /\ pc' = "yydefault"
            /\ UNCHANGED <<yystate, yychar, yyVAL, yylval, Errflag, consumed, eof>>
       ELSE \E t \in ReadChoices :
              LET c == Lookahead(t)
                  target == ShiftTarget(yystate, c)
              IN  /\ yylval' = LvalAfter(t)
                  /\ consumed' = ConsumedAfter(t)
                  /\ eof' = EofAfter(t)
                  /\ IF target >= 0
                     THEN /\ yychar' = 0 - 1
                          /\ yyVAL' = LvalAfter(t)
                          /\ yystate' = target
                          /\ Errflag' = IF Errflag > 0 THEN Errflag - 1 ELSE Errflag
                          /\ pc' = "yystack"
                     ELSE /\ yychar' = c
                          /\ pc' = "yydefault"
                          /\ UNCHANGED <<yyVAL, yystate, Errflag>>
    /\ UNCHANGED <<yyS, Nerrs, errCalls, errAt, lexFilter, goalRuns, reduced>>
    /\ UNCHANGED <<storeVars, evalVars, concVars, cmpVars>>

\* the exception table: the entry of the state, then the action for lookahead c
RECURSIVE ExcaFind(_, _)
ExcaFind(state, xi) ==
    IF At(yyExca, xi) = 0 - 1 /\ At(yyExca, xi + 1) = state THEN xi
    ELSE ExcaFind(state, xi + 2)

\* ExcaScan taking the first entry of the state whatever the lookahead is
ExcaScanFirstEntry(c, xi) == At(yyExca, xi + 1)

\* ExcaScan taking the default entry of the state whatever the lookahead is
RECURSIVE ExcaScanDefaultEntry(_, _)
ExcaScanDefaultEntry(c, xi) ==
    IF At(yyExca, xi) < 0 THEN At(yyExca, xi + 1)
    ELSE ExcaScanDefaultEntry(c, xi + 2)

RECURSIVE ExcaScan(_, _)
ExcaScan(c, xi) ==
    IF At(yyExca, xi) < 0 \/ At(yyExca, xi) = c THEN At(yyExca, xi + 1)
    ELSE ExcaScan(c, xi + 2)

ExcaAction(state, c) == ExcaScan(c, ExcaFind(state, 0) + 2)

\* ErrorShift finding a shift on the error token in the state on top of the
\* stack, whatever the tables say
ErrorShiftResumes(stack, state) ==
    IF stack = <<>> THEN [found |-> FALSE, stack |-> stack, state |-> state]
    ELSE [found |-> TRUE, stack |-> stack, state |-> stack[Len(stack)].yys]

\* the search down the stack for a state with a shift on the error token:
\* the stack left (empty when none is found) and the state assigned last
RECURSIVE ErrorShift(_, _)
ErrorShift(stack, state) ==
    IF stack = <<>> THEN [found |-> FALSE, stack |-> stack, state |-> state]
    ELSE LET yyn == At(yyPact, stack[Len(stack)].yys) + yyErrCode
             inRange == yyn >= 0 /\ yyn < yyLast
             st == IF inRange THEN At(yyAct, yyn) ELSE state
         IN  IF inRange /\ At(yyChk, st) = yyErrCode
             THEN [found |-> TRUE, stack |-> stack, state |-> st]
             ELSE ErrorShift(SubSeq(stack, 1, Len(stack) - 1), st)

\* the goto of nonterminal lhs on the state below the popped right-hand side
GotoState(below, lhs) ==
    LET yyg == At(yyPgo, lhs)
        yyj == yyg + below + 1
    IN  IF yyj >= yyLast THEN At(yyAct, yyg)
        ELSE IF At(yyChk, At(yyAct, yyj)) # 0 - lhs THEN At(yyAct, yyg)
        ELSE At(yyAct, yyj)

\* ActionFilter with production 7 (paren) making a node of its own around the
\* expression between the parentheses
ActionFilterParenNode(yynt, old, s0, s1, s2) ==
    CASE yynt \in {2, 3, 4, 5, 6} -> s0.filter
      [] yynt = 7 -> AndFilter(<<s1.filter>>)
      [] yynt = 8 -> IF s2.filter.kind = "And"
                     THEN AndFilter(Append(s2.filter.Filters, s0.filter))
                     ELSE [kind |-> "panic"]
      [] yynt = 9 -> AndFilter(<<s2.filter, s0.filter>>)
      [] yynt = 10 -> IF s2.filter.kind = "Or"
                      THEN OrFilter(Append(s2.filter.Filters, s0.filter))
                      ELSE [kind |-> "panic"]
      [] yynt = 11 -> OrFilter(<<s2.filter, s0.filter>>)
      [] yynt = 12 -> ComparinsonFilter(s2.tag, s0.val, s1.comp)
      [] yynt = 13 -> NameFilter(s0.tag)
      [] OTHER -> old

\* the semantic action of production yynt: the filter left in yyVAL.
\* s0, s1, s2 are yyS[yypt-0], yyS[yypt-1], yyS[yypt-2]; old is yyVAL.filter
\* before the action. "panic" stands for a failed type assertion.
ActionFilter(yynt, old, s0, s1, s2) ==
    CASE yynt \in {2, 3, 4, 5, 6} -> s0.filter
      [] yynt = 7 -> s1.filter
      [] yynt = 8 -> IF s2.filter.kind = "And"
                     THEN AndFilter(Append(s2.filter.Filters, s0.filter))
                     ELSE [kind |-> "panic"]
      [] yynt = 9 -> AndFilter(<<s2.filter, s0.filter>>)
      [] yynt = 10 -> IF s2.filter.kind = "Or"
                      THEN OrFilter(Append(s2.filter.Filters, s0.filter))
                      ELSE [kind |-> "panic"]
      [] yynt = 11 -> OrFilter(<<s2.filter, s0.filter>>)
      [] yynt = 12 -> ComparinsonFilter(s2.tag, s0.val, s1.comp)
      [] yynt = 13 -> NameFilter(s0.tag)
      [] OTHER -> old

\* the production the default action of the state selects for lookahead c:
\* -1 accepts, 0 is a syntax error
DefaultAction(state, c) ==
    IF At(yyDef, state) = 0 - 2 THEN ExcaAction(state, c) ELSE At(yyDef, state)

\* yydefault: accept, report a syntax error, or reduce
yydefault ==
    /\ pc = "yydefault"
    /\ UNCHANGED <<storeVars, evalVars, concVars, cmpVars>>
    /\ \E t \in (IF At(yyDef, yystate) = 0 - 2 THEN ReadChoices ELSE {NoLex}) :
         LET c == Lookahead(t)
             yyn == DefaultAction(yystate, c)
         IN  /\ yylval' = LvalAfter(t)
             /\ consumed' = ConsumedAfter(t)
             /\ eof' = EofAfter(t)
             /\ IF yyn < 0
                THEN \* accept
                     /\ pc' = "ret0"
                     /\ yychar' = c
                     /\ UNCHANGED <<yystate, yyS, yyVAL, Errflag, Nerrs, errCalls, errAt,
                                    lexFilter, goalRuns, reduced>>
                ELSE IF yyn = 0
                THEN \* error ... attempt to resume parsing
                     IF Errflag \in {0, 1, 2}
                     THEN LET r == ErrorShift(yyS, yystate)
                          IN  /\ errCalls' = IF Errflag = 0 THEN errCalls + 1 ELSE errCalls
                              /\ Nerrs' = IF Errflag = 0 THEN Nerrs + 1 ELSE Nerrs
                              /\ errAt' = IF Errflag = 0 THEN c ELSE errAt
                              /\ Errflag' = 3
                              /\ yyS' = r.stack
                              /\ yystate' = r.state
                              /\ yychar' = c
                              /\ pc' = IF r.found THEN "yystack" ELSE "ret1"
                              /\ UNCHANGED <<yyVAL, lexFilter, goalRuns, reduced>>
                     ELSE \* no shift yet; clobber input char
                          /\ pc' = IF c = yyEofCode THEN "ret1" ELSE "yynewstate"
                          /\ yychar' = IF c = yyEofCode THEN c ELSE 0 - 1
                          /\ UNCHANGED <<yystate, yyS, yyVAL, Errflag, Nerrs, errCalls,
                                         errAt, lexFilter, goalRuns, reduced>>
                ELSE \* reduction by production yyn
                     LET yyp == Len(yyS) - At(yyR2, yyn)
                         s0 == yyS[Len(yyS)]
                         s1 == yyS[Len(yyS) - 1]
                         s2 == yyS[Len(yyS) - 2]
                         val == yyS[yyp + 1]
                         flt == ActionFilter(yyn, val.filter, s0, s1, s2)
                     IN  /\ yyS' = SubSeq(yyS, 1, yyp)
                         /\ yystate' = GotoState(yyS[yyp].yys, At(yyR1, yyn))
                         /\ yyVAL' = [val EXCEPT !.filter = flt]
                         /\ lexFilter' = IF yyn = 1 THEN s0.filter ELSE lexFilter
                         /\ goalRuns' = IF yyn = 1 THEN goalRuns + 1 ELSE goalRuns
                         /\ reduced' = Append(reduced, yyn)
                         /\ yychar' = c
                         /\ pc' = IF flt.kind = "panic" THEN "panic" ELSE "yystack"
                         /\ UNCHANGED <<Errflag, Nerrs, errCalls, errAt>>

-----------------------------------------------------------------------------
(* The grammar of filterparse.y, as a recogniser of token-kind sequences *)

Kinds(toks) == [i \in 1..Len(toks) |-> toks[i].char]

RECURSIVE DerivesExpr(_)
RECURSIVE DerivesAndExpr(_)
RECURSIVE DerivesOrExpr(_)

\* paren: LPAREN expr RPAREN
DerivesParen(s) ==
    /\ Len(s) >= 3
    /\ s[1] = LPAREN
    /\ s[Len(s)] = RPAREN
    /\ DerivesExpr(SubSeq(s, 2, Len(s) - 1))

\* comp: TAG COMP VAL
DerivesComp(s) == s = <<TAG, COMP, VAL>>

\* tag: TAG
DerivesTag(s) == s = <<TAG>>

\* and_expr: and_expr AND expr | expr AND expr
DerivesAndExpr(s) ==
    \E i \in 2..(Len(s) - 1) :
        /\ s[i] = AND
        /\ DerivesAndExpr(SubSeq(s, 1, i - 1)) \/ DerivesExpr(SubSeq(s, 1, i - 1))
        /\ DerivesExpr(SubSeq(s, i + 1, Len(s)))

\* or_expr: or_expr OR expr | expr OR expr
DerivesOrExpr(s) ==
    \E i \in 2..(Len(s) - 1) :
        /\ s[i] = OR
        /\ DerivesOrExpr(SubSeq(s, 1, i - 1)) \/ DerivesExpr(SubSeq(s, 1, i - 1))
        /\ DerivesExpr(SubSeq(s, i + 1, Len(s)))

\* expr: paren | and_expr | or_expr | comp | tag
DerivesExpr(s) ==
    \/ DerivesParen(s)
    \/ DerivesAndExpr(s)
    \/ DerivesOrExpr(s)
    \/ DerivesComp(s)
    \/ DerivesTag(s)

\* the token-kind sequences of n tokens that the grammar derives from expr
RECURSIVE ExprsOfLen(_)
ExprsOfLen(n) ==
    IF n < 1 THEN {}
    ELSE (IF n = 1 THEN {<<TAG>>} ELSE {})
            \cup (IF n = 3 THEN {<<TAG, COMP, VAL>>} ELSE {})
            \cup {<<LPAREN>> \o e \o <<RPAREN>> : e \in ExprsOfLen(n - 2)}
            \cup UNION { {a \o <<op>> \o b : a \in ExprsOfLen(i),
                                            b \in ExprsOfLen(n - 1 - i),
                                            op \in {AND, OR}} : i \in 1..(n - 2) }

\* the sentences of the grammar that the token bound admits
Sentences == UNION {ExprsOfLen(n) : n \in 1..MaxToks}

-----------------------------------------------------------------------------
(* The sqlite schema and statements (storage/sqlite.go:36-85 and the *Stmt
   constants) *)

\* PRAGMA foreign_keys = ON
ForeignKeys == TRUE

FileRow(uuid, path) == [uuid |-> uuid, path |-> path]

\* a row of tags: value is NULL when valid is FALSE
TagRow(uuid, name, valid, value) ==
    [uuid |-> uuid, name |-> name, valid |-> valid, value |-> value]

\* ForeignKeyHolds with the foreign key of tags never checked
ForeignKeyUnchecked(files, tags) == TRUE

\* FOREIGN KEY(uuid) REFERENCES file(uuid), checked when a statement ends
ForeignKeyHolds(files, tags) ==
    ForeignKeys => \A r \in tags : \E f \in files : f.uuid = r.uuid

\* InsertOrReplaceFile replacing on UNIQUE(path) only: a row with the same
\* identifier and another path stays
InsertOrReplaceFileByPathOnly(files, tags, uuid, path) ==
    LET kept == {f \in files : f.path # path}
        new == kept \cup {FileRow(uuid, path)}
    IN  IF ForeignKeyHolds(new, tags)
        THEN [ok |-> TRUE, files |-> new]
        ELSE [ok |-> FALSE, files |-> files]

\* INSERT OR REPLACE INTO file (uuid, path): the rows that collide on the
\* primary key or on UNIQUE(path) are deleted, the statement fails and changes
\* nothing when it leaves a tag without its file
InsertOrReplaceFile(files, tags, uuid, path) ==
    LET kept == {f \in files : f.uuid # uuid /\ f.path # path}
        new == kept \cup {FileRow(uuid, path)}
    IN  IF ForeignKeyHolds(new, tags)
        THEN [ok |-> TRUE, files |-> new]
        ELSE [ok |-> FALSE, files |-> files]

\* InsertOrReplaceTag whose key is (uuid, name, value): a row with another value stays
InsertOrReplaceTagKeyedByValue(files, tags, uuid, name, valid, value) ==
    LET new == tags \cup {TagRow(uuid, name, valid, value)}
    IN  IF ForeignKeyHolds(files, new)
        THEN [ok |-> TRUE, tags |-> new]
        ELSE [ok |-> FALSE, tags |-> tags]

\* INSERT OR REPLACE INTO tags (uuid, name, value)
InsertOrReplaceTag(files, tags, uuid, name, valid, value) ==
    LET kept == {r \in tags : ~(r.uuid = uuid /\ r.name = name)}
        new == kept \cup {TagRow(uuid, name, valid, value)}
    IN  IF ForeignKeyHolds(files, new)
        THEN [ok |-> TRUE, tags |-> new]
        ELSE [ok |-> FALSE, tags |-> tags]

\* DeleteTag with the WHERE clause on the name alone
DeleteTagByNameOnly(tags, uuid, name) == {r \in tags : r.name # name}

\* DELETE FROM tags WHERE uuid = ? AND name = ?
DeleteTag(tags, uuid, name) == {r \in tags : ~(r.uuid = uuid /\ r.name = name)}

\* DELETE FROM file WHERE uuid = ?
DeleteFile(files, tags, uuid) ==
    LET new == {f \in files : f.uuid # uuid}
    IN  IF ForeignKeyHolds(new, tags)
        THEN [ok |-> TRUE, files |-> new]
        ELSE [ok |-> FALSE, files |-> files]

\* the orders in which a query can hand out the rows of a set
Orders(S) == {o \in [1..Cardinality(S) -> S] : \A x \in S : \E i \in DOMAIN o : o[i] = x}

-----------------------------------------------------------------------------
(* SqliteStorage (storage/sqlite.go:91-388) *)

NewFile(uuid, path) == [uuid |-> uuid, path |-> path]

ErrNil == "nil"
ErrNoFile == "tagger: No such file in storage"
ErrNoTag == "tagger: No such tag on file"
\* the error of a statement that violates a constraint
ErrConstraint == "constraint failed"
\* any other error the database driver returns
ErrDriver == "driver error"

\* the tag GetTags builds from a row
TagOfRow(r) == IF r.valid THEN NewValueTag(r.name, r.value) ELSE NewNamedTag(r.name)

\* GetFile answering a query that finds no row with the zero File and no error
GetFileNoRowsIsZeroFile(db, u, fails) ==
    LET rows == {f \in db.files : f.uuid = u}
    IN  IF fails THEN [err |-> ErrDriver, file |-> NewFile("", "")]
        ELSE IF rows = {} THEN [err |-> ErrNil, file |-> NewFile("", "")]
        ELSE LET r == CHOOSE f \in rows : TRUE
             IN  [err |-> ErrNil, file |-> NewFile(r.uuid, r.path)]

\* GetFile: db is [files, tags]; `fails`: Scan returns an error other than
\* sql.ErrNoRows
GetFile(db, u, fails) ==
    LET rows == {f \in db.files : f.uuid = u}
    IN  IF fails THEN [err |-> ErrDriver, file |-> NewFile("", "")]
        ELSE IF rows = {} THEN [err |-> ErrNoFile, file |-> NewFile("", "")]
        ELSE LET r == CHOOSE f \in rows : TRUE
             IN  [err |-> ErrNil, file |-> NewFile(r.uuid, r.path)]

GetFileForPath(db, path, fails) ==
    LET rows == {f \in db.files : f.path = path}
    IN  IF fails THEN [err |-> ErrDriver, file |-> NewFile("", "")]
        ELSE IF rows = {} THEN [err |-> ErrNoFile, file |-> NewFile("", "")]
        ELSE LET r == CHOOSE f \in rows : TRUE
             IN  [err |-> ErrNil, file |-> NewFile(r.uuid, r.path)]

\* GetAllFiles, the rows coming in the order `order`
GetAllFiles(db, order, fails) ==
    IF fails THEN [err |-> ErrDriver, files |-> <<>>]
    ELSE [err |-> ErrNil, files |-> [i \in DOMAIN order |-> NewFile(order[i].uuid, order[i].path)]]

\* the rows GetTags selects for f
TagRowsOf(db, f) == {r \in db.tags : r.uuid = f.uuid}

\* GetTags, the rows coming in the order `order`
GetTags(db, f, order, fails) ==
    IF fails THEN [err |-> ErrDriver, tags |-> <<>>]
    ELSE [err |-> ErrNil, tags |-> [i \in DOMAIN order |-> TagOfRow(order[i])]]

\* UpdateTag; `fails`: the driver fails the statement
UpdateTag(db, f, t, fails) ==
    IF fails THEN [err |-> ErrDriver, db |-> db]
    ELSE LET r == IF HasValue(t)
                  THEN InsertOrReplaceTag(db.files, db.tags, f.uuid, TagName(t), TRUE, Value(t))
                  ELSE InsertOrReplaceTag(db.files, db.tags, f.uuid, TagName(t), FALSE, 0)
         IN  IF r.ok THEN [err |-> ErrNil, db |-> [db EXCEPT !.tags = r.tags]]
             ELSE [err |-> ErrConstraint, db |-> db]

\* RemoveTag returning ErrNoTag when the file carries no tag of the name
RemoveTagAbsentIsError(db, f, t, fails) ==
    IF fails THEN [err |-> ErrDriver, db |-> db]
    ELSE IF ~\E r \in db.tags : r.uuid = f.uuid /\ r.name = TagName(t)
    THEN [err |-> ErrNoTag, db |-> db]
    ELSE [err |-> ErrNil, db |-> [db EXCEPT !.tags = DeleteTag(db.tags, f.uuid, TagName(t))]]

\* RemoveTag
RemoveTag(db, f, t, fails) ==
    IF fails THEN [err |-> ErrDriver, db |-> db]
    ELSE [err |-> ErrNil, db |-> [db EXCEPT !.tags = DeleteTag(db.tags, f.uuid, TagName(t))]]

\* the loop of UpdateFile over the tags from index i; the statement numbered
\* `fault` (the file's is 1, tag i's is i + 1) is failed by the driver
RECURSIVE UpdateFileTags(_, _, _, _, _)
UpdateFileTags(db, f, t, i, fault) ==
    IF i > Len(t) THEN [err |-> ErrNil, db |-> db]
    ELSE LET r == UpdateTag(db, f, t[i], fault = i + 1)
         IN  IF r.err # ErrNil THEN r
             ELSE UpdateFileTags(r.db, f, t, i + 1, fault)

UpdateFile(db, f, t, fault) ==
    IF fault = 1 THEN [err |-> ErrDriver, db |-> db]
    ELSE LET r == InsertOrReplaceFile(db.files, db.tags, f.uuid, f.path)
         IN  IF ~r.ok THEN [err |-> ErrConstraint, db |-> db]
             ELSE UpdateFileTags([db EXCEPT !.files = r.files], f, t, 1, fault)

\* the loop of RemoveFile over the tags GetTags returned, from index i
RECURSIVE RemoveFileTags(_, _, _, _, _)
RemoveFileTags(db, f, tags, i, fault) ==
    IF i > Len(tags) THEN [err |-> ErrNil, db |-> db]
    ELSE LET r == RemoveTag(db, f, tags[i], fault = i + 1)
         IN  IF r.err # ErrNil THEN r
             ELSE RemoveFileTags(r.db, f, tags, i + 1, fault)

\* RemoveFile: statement 1 is the query of GetTags, i + 1 the removal of tag i,
\* the last one the deletion of the file row
RemoveFile(db, f, order, fault) ==
    LET g == GetTags(db, f, order, fault = 1)
    IN  IF g.err # ErrNil THEN [err |-> g.err, db |-> db]
        ELSE LET r == RemoveFileTags(db, f, g.tags, 1, fault)
             IN  IF r.err # ErrNil THEN r
                 ELSE IF fault = Len(g.tags) + 2 THEN [err |-> ErrDriver, db |-> r.db]
                 ELSE LET d == DeleteFile(r.db.files, r.db.tags, f.uuid)
                      IN  IF d.ok THEN [err |-> ErrNil, db |-> [r.db EXCEPT !.files = d.files]]
                          ELSE [err |-> ErrConstraint, db |-> r.db]

\* the loop of GetMatchingFiles over files from index i; tagOrder[file] is the
\* order GetTags hands out the file's rows, the fetch numbered `fault` fails
\* (GetAllFiles is 1, the GetTags of file i is i + 1)
\* MatchingLoop evaluating the filter on the tags of the first file for every file
RECURSIVE MatchingLoopFirstFileTags(_, _, _, _, _, _, _)
MatchingLoopFirstFileTags(db, flt, files, tagOrder, i, fault, matches) ==
    IF i > Len(files) THEN [err |-> ErrNil, files |-> matches, fetched |-> i - 1]
    ELSE LET g == GetTags(db, files[1], tagOrder[files[1]], fault = i + 1)
         IN  IF g.err # ErrNil THEN [err |-> g.err, files |-> <<>>, fetched |-> i]
             ELSE MatchingLoopFirstFileTags(db, flt, files, tagOrder, i + 1, fault,
                               IF Matches(flt, g.tags) THEN Append(matches, files[i])
                               ELSE matches)

\* MatchingLoop going on to the next file when the tag fetch of a file fails
RECURSIVE MatchingLoopSkipFailed(_, _, _, _, _, _, _)
MatchingLoopSkipFailed(db, flt, files, tagOrder, i, fault, matches) ==
    IF i > Len(files) THEN [err |-> ErrNil, files |-> matches, fetched |-> i - 1]
    ELSE LET g == GetTags(db, files[i], tagOrder[files[i]], fault = i + 1)
         IN  MatchingLoopSkipFailed(db, flt, files, tagOrder, i + 1, fault,
                                    IF g.err = ErrNil /\ Matches(flt, g.tags)
                                    THEN Append(matches, files[i])
                                    ELSE matches)

RECURSIVE MatchingLoop(_, _, _, _, _, _, _)
MatchingLoop(db, flt, files, tagOrder, i, fault, matches) ==
    IF i > Len(files) THEN [err |-> ErrNil, files |-> matches, fetched |-> i - 1]
    ELSE LET g == GetTags(db, files[i], tagOrder[files[i]], fault = i + 1)
         IN  IF g.err # ErrNil THEN [err |-> g.err, files |-> <<>>, fetched |-> i]
             ELSE MatchingLoop(db, flt, files, tagOrder, i + 1, fault,
                               IF Matches(flt, g.tags) THEN Append(matches, files[i])
                               ELSE matches)

GetMatchingFiles(db, flt, fileOrder, tagOrder, fault) ==
    LET a == GetAllFiles(db, fileOrder, fault = 1)
    IN  IF a.err # ErrNil THEN [err |-> a.err, files |-> <<>>, fetched |-> 0]
        ELSE MatchingLoop(db, flt, a.files, tagOrder, 1, fault, <<>>)

-----------------------------------------------------------------------------
(* Calls of the storage provider *)

UUIDs == {"u1", "u2"}
Paths == {"p1", "p2"}
Files == {NewFile(u, p) : u \in UUIDs, p \in Paths}

\* the File values handed to the calls that read only the identifier
FilesById == {NewFile(u, "p1") : u \in UUIDs}

StoreNames == {"role", "status"}
StoreTags ==
    {NewNamedTag("role"), NewValueTag("role", 1), NewValueTag("role", 2), NewNamedTag("status")}

\* the tags the lists handed to UpdateFile are made of
ListTags == {NewValueTag("role", 1), NewNamedTag("status")}

TagLists == UNION {[1..n -> ListTags] : n \in 0..MaxTagList}

\* the filters handed to GetMatchingFiles
FilterPool ==
    { NameFilter("status"),
      OrFilter(<<ComparinsonFilter("role", 1, Equals), NameFilter("status")>>),
      AndFilter(<<ComparinsonFilter("role", 2, LessThan), NameFilter("status")>>) }

DB == [files |-> fileTbl, tags |-> tagTbl]

NoFile == NewFile("", "")

\* what storage held for a call's arguments when the call was made: the very
\* record f, a tag of f named name, and the number of tags of f
Before(f, name) ==
    [stored |-> FileRow(f.uuid, f.path) \in fileTbl,
     named |-> \E r \in tagTbl : r.uuid = f.uuid /\ r.name = name,
     ntags |-> Cardinality({r \in tagTbl : r.uuid = f.uuid})]

\* a file argument of the command line: the text after the prefix "uuid:", or
\* the whole text when it has no such prefix
FileArg(prefix, rest) == [prefix |-> prefix, rest |-> rest]

NoArg == FileArg("", "")

NoCall ==
    [op |-> "none", file |-> NoFile, key |-> "", nargs |-> 0, arg |-> NoArg, dst |-> "",
     tags |-> <<>>, filter |-> NilFilter,
     fault |-> 0, before |-> [stored |-> FALSE, named |-> FALSE, ntags |-> 0],
     fetched |-> 0, err |-> ErrNil, out |-> <<>>]

StoreInit ==
    /\ fileTbl = {}
    /\ tagTbl = {}
    /\ last = NoCall

CallGetFile ==
    /\ \E u \in UUIDs, fails \in BOOLEAN :
        /\ last' = [NoCall EXCEPT !.op = "GetFile", !.key = u,
                                  !.fault = IF fails THEN 1 ELSE 0,
                                  !.err = GetFile(DB, u, fails).err,
                                  !.out = GetFile(DB, u, fails).file]
        /\ UNCHANGED <<fileTbl, tagTbl>>
    /\ UNCHANGED <<parseVars, evalVars, concVars, cmpVars>>

CallGetFileForPath ==
    /\ \E p \in Paths, fails \in BOOLEAN :
        /\ last' = [NoCall EXCEPT !.op = "GetFileForPath", !.key = p,
                                  !.fault = IF fails THEN 1 ELSE 0,
                                  !.err = GetFileForPath(DB, p, fails).err,
                                  !.out = GetFileForPath(DB, p, fails).file]
        /\ UNCHANGED <<fileTbl, tagTbl>>
    /\ UNCHANGED <<parseVars, evalVars, concVars, cmpVars>>

CallGetAllFiles ==
    /\ \E order \in Orders(fileTbl), fails \in BOOLEAN :
        LET r == GetAllFiles(DB, order, fails)
        IN  /\ last' = [NoCall EXCEPT !.op = "GetAllFiles", !.fault = IF fails THEN 1 ELSE 0,
                                      !.err = r.err, !.out = r.files]
            /\ UNCHANGED <<fileTbl, tagTbl>>
    /\ UNCHANGED <<parseVars, evalVars, concVars, cmpVars>>

CallGetTags ==
    /\ \E f \in FilesById, fails \in BOOLEAN :
        \E order \in Orders(TagRowsOf(DB, f)) :
            LET r == GetTags(DB, f, order, fails)
            IN  /\ last' = [NoCall EXCEPT !.op = "GetTags", !.file = f,
                                          !.fault = IF fails THEN 1 ELSE 0,
                                          !.err = r.err, !.out = r.tags]
                /\ UNCHANGED <<fileTbl, tagTbl>>
    /\ UNCHANGED <<parseVars, evalVars, concVars, cmpVars>>

\* for every file record, an order of its tag rows
TagOrders ==
    {o \in [fileTbl -> UNION {Orders(TagRowsOf(DB, f)) : f \in fileTbl}] :
        \A f \in fileTbl : o[f] \in Orders(TagRowsOf(DB, f))}

CallGetMatchingFiles ==
    /\ \E flt \in FilterPool, fileOrder \in Orders(fileTbl), tagOrder \in TagOrders :
        \E fault \in 0..(Cardinality(fileTbl) + 1) :
            LET r == GetMatchingFiles(DB, flt, fileOrder, tagOrder, fault)
            IN  /\ last' = [NoCall EXCEPT !.op = "GetMatchingFiles", !.filter = flt,
                                          !.fault = fault, !.fetched = r.fetched,
                                          !.err = r.err, !.out = r.files]
                /\ UNCHANGED <<fileTbl, tagTbl>>
    /\ UNCHANGED <<parseVars, evalVars, concVars, cmpVars>>

CallUpdateTag ==
    /\ \E f \in FilesById, t \in StoreTags, fails \in BOOLEAN :
        LET r == UpdateTag(DB, f, t, fails)
        IN  /\ fileTbl' = r.db.files
            /\ tagTbl' = r.db.tags
            /\ last' = [NoCall EXCEPT !.op = "UpdateTag", !.file = f, !.tags = <<t>>,
                                      !.before = Before(f, TagName(t)),
                                      !.fault = IF fails THEN 1 ELSE 0, !.err = r.err]
    /\ UNCHANGED <<parseVars, evalVars, concVars, cmpVars>>

CallRemoveTag ==
    /\ \E f \in FilesById, n \in StoreNames, fails \in BOOLEAN :
        LET r == RemoveTag(DB, f, NewNamedTag(n), fails)
        IN  /\ fileTbl' = r.db.files
            /\ tagTbl' = r.db.tags
            /\ last' = [NoCall EXCEPT !.op = "RemoveTag", !.file = f,
                                      !.before = Before(f, n),
                                      !.tags = <<NewNamedTag(n)>>,
                                      !.fault = IF fails THEN 1 ELSE 0, !.err = r.err]
    /\ UNCHANGED <<parseVars, evalVars, concVars, cmpVars>>

CallUpdateFile ==
    /\ \E f \in Files, t \in TagLists :
        \E fault \in 0..(Len(t) + 1) :
            LET r == UpdateFile(DB, f, t, fault)
            IN  /\ fileTbl' = r.db.files
                /\ tagTbl' = r.db.tags
                /\ last' = [NoCall EXCEPT !.op = "UpdateFile", !.file = f, !.tags = t,
                                          !.before = Before(f, ""),
                                          !.fault = fault, !.err = r.err]
    /\ UNCHANGED <<parseVars, evalVars, concVars, cmpVars>>

CallRemoveFile ==
    /\ \E f \in Files :
        \E order \in Orders(TagRowsOf(DB, f)) :
            \E fault \in 0..(Len(order) + 2) :
                LET r == RemoveFile(DB, f, order, fault)
                IN  /\ fileTbl' = r.db.files
                    /\ tagTbl' = r.db.tags
                    /\ last' = [NoCall EXCEPT !.op = "RemoveFile", !.file = f,
                                              !.before = Before(f, ""),
                                              !.fault = fault, !.err = r.err]
    /\ UNCHANGED <<parseVars, evalVars, concVars, cmpVars>>

-----------------------------------------------------------------------------
(* The commands of tagger-cli (cmd/tagger-cli/main.go), run on the storage
   provider with a driver that fails no statement *)

ErrInvalidValue == "tagger: Invalid tag value"
\* the error of ensureArgs
ErrUsage == "Expected more arguments"

\* ensureArgs(n): nargs is the number of arguments after the command
ensureArgs(nargs, n) == IF nargs < n THEN ErrUsage ELSE ErrNil

getFileFromArg(db, arg) ==
    IF arg.prefix = "uuid:"
    THEN GetFile(db, arg.rest, FALSE)
    ELSE GetFileForPath(db, arg.rest, FALSE)

\* addFile: u is the identifier uuid.NewUUID() hands out
addFile(db, nargs, path, u) ==
    IF ensureArgs(nargs, 1) # ErrNil THEN [err |-> ErrUsage, db |-> db]
    ELSE UpdateFile(db, NewFile(u, path), <<>>, 0)

removeFile(db, nargs, arg, order) ==
    IF ensureArgs(nargs, 1) # ErrNil THEN [err |-> ErrUsage, db |-> db]
    ELSE LET g == getFileFromArg(db, arg)
         IN  IF g.err # ErrNil THEN [err |-> g.err, db |-> db]
             ELSE RemoveFile(db, g.file, order, 0)

moveFile(db, nargs, src, dst, order) ==
    IF ensureArgs(nargs, 2) # ErrNil THEN [err |-> ErrUsage, db |-> db]
    ELSE LET g == getFileFromArg(db, src)
         IN  IF g.err # ErrNil THEN [err |-> g.err, db |-> db]
             ELSE LET t == GetTags(db, g.file, order, FALSE)
                  IN  IF t.err # ErrNil THEN [err |-> t.err, db |-> db]
                      ELSE UpdateFile(db, NewFile(g.file.uuid, dst), t.tags, 0)

\* setTag: with a third argument the tag is Valued; numeric says whether
\* strconv.Atoi accepts the argument, value is what it returns then
setTag(db, nargs, arg, name, numeric, value) ==
    IF ensureArgs(nargs, 2) # ErrNil THEN [err |-> ErrUsage, db |-> db]
    ELSE LET g == getFileFromArg(db, arg)
         IN  IF g.err # ErrNil THEN [err |-> g.err, db |-> db]
             ELSE IF nargs > 2
                  THEN IF ~numeric THEN [err |-> ErrInvalidValue, db |-> db]
                       ELSE UpdateTag(db, g.file, NewValueTag(name, value), FALSE)
                  ELSE UpdateTag(db, g.file, NewNamedTag(name), FALSE)

unsetTag(db, nargs, arg, name) ==
    IF ensureArgs(nargs, 2) # ErrNil THEN [err |-> ErrUsage, db |-> db]
    ELSE LET g == getFileFromArg(db, arg)
         IN  IF g.err # ErrNil THEN [err |-> g.err, db |-> db]
             ELSE RemoveTag(db, g.file, NewNamedTag(name), FALSE)

\* get: printed is the list of tags written to the output
get(db, nargs, arg, order) ==
    IF ensureArgs(nargs, 1) # ErrNil THEN [err |-> ErrUsage, printed |-> <<>>]
    ELSE LET g == getFileFromArg(db, arg)
         IN  IF g.err # ErrNil THEN [err |-> ErrNil, printed |-> <<>>]
             ELSE LET t == GetTags(db, g.file, order, FALSE)
                  IN  IF t.err # ErrNil THEN [err |-> t.err, printed |-> <<>>]
                      ELSE [err |-> ErrNil, printed |-> t.tags]

\* the file arguments given on the command line
FileArgs ==
    {FileArg("uuid:", u) : u \in UUIDs} \cup {FileArg("", p) : p \in Paths}

\* the orders in which the tag rows of the file that arg resolves to can come
ArgOrders(arg) ==
    LET g == getFileFromArg(DB, arg)
    IN  IF g.err = ErrNil THEN Orders(TagRowsOf(DB, g.file)) ELSE {<<>>}

\* the largest value given to the set command
MaxCliValue == 1

CliValues == 1..MaxCliValue

\* the command lines of a command that requires n arguments, the first one a
\* file argument: one argument too few, or n arguments
CmdLines(n) ==
    {[nargs |-> n - 1, arg |-> NoArg]} \cup {[nargs |-> n, arg |-> a] : a \in FileArgs}

\* the value argument of the set command: none, one strconv.Atoi rejects, or a number
ValueArgs ==
    {[given |-> FALSE, numeric |-> FALSE, value |-> 0],
     [given |-> TRUE, numeric |-> FALSE, value |-> 0]}
        \cup {[given |-> TRUE, numeric |-> TRUE, value |-> v] : v \in CliValues}

CmdAddFile ==
    /\ \E nargs \in 0..1, path \in Paths :
        \E u \in UUIDs \ {f.uuid : f \in fileTbl} :
            LET r == addFile(DB, nargs, path, u)
            IN  /\ fileTbl' = r.db.files
                /\ tagTbl' = r.db.tags
                /\ last' = [NoCall EXCEPT !.op = "addFile", !.nargs = nargs,
                                          !.file = NewFile(u, path), !.err = r.err]
    /\ UNCHANGED <<parseVars, evalVars, concVars, cmpVars>>

CmdRemoveFile ==
    /\ \E c \in CmdLines(1) :
      \E order \in ArgOrders(c.arg) :
        LET nargs == c.nargs
            arg == c.arg
            r == removeFile(DB, nargs, arg, order)
        IN  /\ fileTbl' = r.db.files
            /\ tagTbl' = r.db.tags
            /\ last' = [NoCall EXCEPT !.op = "removeFile", !.nargs = nargs,
                                      !.arg = arg, !.err = r.err]
    /\ UNCHANGED <<parseVars, evalVars, concVars, cmpVars>>

CmdMoveFile ==
    /\ \E c \in CmdLines(2), dst \in Paths :
      \E order \in ArgOrders(c.arg) :
        LET nargs == c.nargs
            src == c.arg
            r == moveFile(DB, nargs, src, dst, order)
        IN  /\ fileTbl' = r.db.files
            /\ tagTbl' = r.db.tags
            /\ last' = [NoCall EXCEPT !.op = "moveFile", !.nargs = nargs,
                                      !.arg = src, !.dst = dst, !.err = r.err]
    /\ UNCHANGED <<parseVars, evalVars, concVars, cmpVars>>

CmdSetTag ==
    /\ \E c \in CmdLines(2), name \in StoreNames, v \in ValueArgs :
            LET nargs == IF v.given /\ c.nargs = 2 THEN 3 ELSE c.nargs
                arg == c.arg
                numeric == v.numeric
                value == v.value
                r == setTag(DB, nargs, arg, name, numeric, value)
            IN  /\ fileTbl' = r.db.files
                /\ tagTbl' = r.db.tags
                /\ last' = [NoCall EXCEPT !.op = "setTag", !.nargs = nargs, !.arg = arg,
                                          !.tags = IF nargs > 2 /\ numeric
                                                   THEN <<NewValueTag(name, value)>>
                                                   ELSE <<NewNamedTag(name)>>,
                                          !.err = r.err]
    /\ UNCHANGED <<parseVars, evalVars, concVars, cmpVars>>

\* the tag names given to the set command when any text may be given: the
\* empty argument is one of them
AnyNames == {"", "role"}

\* the set command, the name argument being any text
CmdSetTagAnyName ==
    /\ \E c \in CmdLines(2), name \in AnyNames, v \in ValueArgs :
            LET nargs == IF v.given /\ c.nargs = 2 THEN 3 ELSE c.nargs
                arg == c.arg
                numeric == v.numeric
                value == v.value
                r == setTag(DB, nargs, arg, name, numeric, value)
            IN  /\ fileTbl' = r.db.files
                /\ tagTbl' = r.db.tags
                /\ last' = [NoCall EXCEPT !.op = "setTag", !.nargs = nargs, !.arg = arg,
                                          !.tags = IF nargs > 2 /\ numeric
                                                   THEN <<NewValueTag(name, value)>>
                                                   ELSE <<NewNamedTag(name)>>,
                                          !.err = r.err]
    /\ UNCHANGED <<parseVars, evalVars, concVars, cmpVars>>

CmdUnsetTag ==
    /\ \E c \in CmdLines(2), name \in StoreNames :
        LET nargs == c.nargs
            arg == c.arg
            r == unsetTag(DB, nargs, arg, name)
        IN  /\ fileTbl' = r.db.files
            /\ tagTbl' = r.db.tags
            /\ last' = [NoCall EXCEPT !.op = "unsetTag", !.nargs = nargs, !.arg = arg,
                                      !.tags = <<NewNamedTag(name)>>, !.err = r.err]
    /\ UNCHANGED <<parseVars, evalVars, concVars, cmpVars>>

CmdGet ==
    /\ \E c \in CmdLines(1) :
      \E order \in ArgOrders(c.arg) :
        LET nargs == c.nargs
            arg == c.arg
            r == get(DB, nargs, arg, order)
        IN  /\ last' = [NoCall EXCEPT !.op = "get", !.nargs = nargs, !.arg = arg,
                                      !.err = r.err, !.out = r.printed]
            /\ UNCHANGED <<fileTbl, tagTbl>>
    /\ UNCHANGED <<parseVars, evalVars, concVars, cmpVars>>

-----------------------------------------------------------------------------
(* One evaluation of Matches on a tag list *)

EvalNames == {"x", "y"}
EvalVals == {-1, 0, 1}

EvalTags ==
    {NewNamedTag(n) : n \in EvalNames} \cup {NewValueTag(n, v) : n \in EvalNames, v \in EvalVals}

\* the longest tag list evaluated
MaxEvalTags == 2

EvalTagLists == UNION {[1..n -> EvalTags] : n \in 0..MaxEvalTags}

Comparators == Invalid..GreaterThanOrEqual

EvalLeaves ==
    {NameFilter(n) : n \in EvalNames}
        \cup {ComparinsonFilter("x", v, fn) : v \in EvalVals, fn \in Comparators}

\* the operands of the nested connectives
EvalOperands == {NameFilter("x"), ComparinsonFilter("x", 1, GreaterThanOrEqual)}

EvalInner ==
    {AndFilter(<<NameFilter("y"), c>>) : c \in EvalOperands}
        \cup {OrFilter(<<NameFilter("y"), c>>) : c \in EvalOperands}

\* connectives with three children, with a connective as a child, and with a
\* connective two levels down
EvalNested ==
    {AndFilter(<<a, NameFilter("y"), b>>) : a \in EvalOperands, b \in EvalOperands}
        \cup {OrFilter(<<a, NameFilter("y"), b>>) : a \in EvalOperands, b \in EvalOperands}
        \cup {AndFilter(<<a, n>>) : a \in EvalOperands, n \in EvalInner}
        \cup {OrFilter(<<n, a>>) : a \in EvalOperands, n \in EvalInner}
        \cup {AndFilter(<<OrFilter(<<n, NameFilter("x")>>), NameFilter("y")>>) : n \in EvalInner}
        \cup {OrFilter(<<AndFilter(<<n, NameFilter("x")>>), NameFilter("y")>>) : n \in EvalInner}

EvalFilters ==
    EvalLeaves
        \cup {AndFilter(<<NameFilter("y"), c>>) : c \in EvalLeaves}
        \cup {OrFilter(<<NameFilter("y"), c>>) : c \in EvalLeaves}
        \cup EvalNested

EvalInit ==
    /\ evFilter \in EvalFilters
    /\ evTags \in EvalTagLists
    /\ evDone = FALSE
    /\ evResult = FALSE

EvalIdle ==
    /\ evFilter = NilFilter
    /\ evTags = <<>>
    /\ evDone = FALSE
    /\ evResult = FALSE

Evaluate ==
    /\ ~evDone
    /\ evFilter # NilFilter
    /\ evDone' = TRUE
    /\ evResult' = Matches(evFilter, evTags)
    /\ UNCHANGED <<evFilter, evTags>>
    /\ UNCHANGED <<parseVars, storeVars, concVars, cmpVars>>

-----------------------------------------------------------------------------
(* A Comparator made from a string or from an integer, put into a
   ComparinsonFilter, which is then evaluated *)

ComparatorSymbols == {"==", "!=", "<", ">", "<=", ">="}

\* the strings given to ComparatorFromString
ComparatorStrings == ComparatorSymbols \cup {"", "=", "=<", "<>", "===", "< ", "eq"}

\* ComparatorFromString taking "=" for Equals
ComparatorFromStringSingleEquals(val) ==
    CASE val = "==" -> Equals
      [] val = "=" -> Equals
      [] val = "!=" -> NotEquals
      [] val = "<" -> LessThan
      [] val = ">" -> GreaterThan
      [] val = "<=" -> LessThanOrEqual
      [] val = ">=" -> GreaterThanOrEqual
      [] OTHER -> Invalid

ComparatorFromString(val) ==
    CASE val = "==" -> Equals
      [] val = "!=" -> NotEquals
      [] val = "<" -> LessThan
      [] val = ">" -> GreaterThan
      [] val = "<=" -> LessThanOrEqual
      [] val = ">=" -> GreaterThanOrEqual
      [] OTHER -> Invalid

\* integers converted to Comparator that are none of the seven constants
StrayComparators == {-1, GreaterThanOrEqual + 1}

CmpIdle ==
    /\ cfsVal = ""
    /\ cfsRet = Invalid
    /\ cfsDone = FALSE

CmpInit ==
    /\ cfsVal \in ComparatorStrings
    /\ cfsRet = Invalid
    /\ cfsDone = FALSE
    /\ evFilter = NilFilter
    /\ evTags \in EvalTagLists
    /\ evDone = FALSE
    /\ evResult = FALSE

\* ComparatorFromString(cfsVal), the result made the Function of a filter
CallComparatorFromString ==
    /\ ~cfsDone
    /\ evFilter = NilFilter
    /\ cfsRet' = ComparatorFromString(cfsVal)
    /\ cfsDone' = TRUE
    /\ \E v \in EvalVals : evFilter' = ComparinsonFilter("x", v, cfsRet')
    /\ UNCHANGED <<cfsVal, evTags, evDone, evResult>>
    /\ UNCHANGED <<parseVars, storeVars, concVars>>

\* a filter whose Function is Comparator(n) for an integer n
ConvertComparator ==
    /\ ~cfsDone
    /\ evFilter = NilFilter
    /\ \E v \in EvalVals, n \in StrayComparators :
          evFilter' = ComparinsonFilter("x", v, n)
    /\ UNCHANGED <<evTags, evDone, evResult>>
    /\ UNCHANGED <<parseVars, storeVars, concVars, cmpVars>>

-----------------------------------------------------------------------------
(* Concurrent calls of Matches on one shared tree, one step of one call at a
   time. A frame is one call of Matches: the node it runs on (the path of
   child indices from the root) and its loop index. *)

Threads == {"g1", "g2"}

\* the trees shared and the tag lists the calls are given
ConcTrees ==
    { NameFilter("x"),
      ComparinsonFilter("x", 1, GreaterThanOrEqual),
      AndFilter(<<NameFilter("x"), NameFilter("y")>>),
      OrFilter(<<ComparinsonFilter("x", 1, Equals), NameFilter("y")>>),
      AndFilter(<<NameFilter("y"),
                  OrFilter(<<NameFilter("x"), ComparinsonFilter("y", 0, LessThan)>>)>>) }

ConcTagLists ==
    { <<>>,
      <<NewNamedTag("x")>>,
      <<NewValueTag("x", 1), NewNamedTag("y")>>,
      <<NewValueTag("y", -1), NewNamedTag("x")>> }

\* the node of the tree at a path
RECURSIVE NodeAt(_, _)
NodeAt(tree, path) ==
    IF path = <<>> THEN tree ELSE NodeAt(tree.Filters[Head(path)], Tail(path))

\* the tree with the node at a path replaced
RECURSIVE SetAt(_, _, _)
SetAt(tree, path, node) ==
    IF path = <<>> THEN node
    ELSE [tree EXCEPT !.Filters[Head(path)] = SetAt(tree.Filters[Head(path)], Tail(path), node)]

NoRet == [has |-> FALSE, val |-> FALSE]

\* a goroutine about to call Matches on the root with the tag list
CallOf(tags) ==
    [tags |-> tags, stack |-> <<[path |-> <<>>, i |-> 1]>>, ret |-> NoRet,
     done |-> FALSE, result |-> FALSE]

IdleThread == [tags |-> <<>>, stack |-> <<>>, ret |-> NoRet, done |-> FALSE, result |-> FALSE]

\* the call on top of the stack returns v
Return(th, v) ==
    LET rest == SubSeq(th.stack, 1, Len(th.stack) - 1)
    IN  IF rest = <<>>
        THEN [th EXCEPT !.stack = <<>>, !.ret = NoRet, !.done = TRUE, !.result = v]
        ELSE [th EXCEPT !.stack = rest, !.ret = [has |-> TRUE, val |-> v]]

\* the loop of the top call goes on to its next element
Advance(th) ==
    [th EXCEPT !.stack[Len(th.stack)].i = @ + 1, !.ret = NoRet]

\* the top call calls Matches on child i of its node
CallChild(th) ==
    LET fr == th.stack[Len(th.stack)]
    IN  [th EXCEPT !.stack = Append(@, [path |-> Append(fr.path, fr.i), i |-> 1])]

\* one step of the call on top of the stack of th
MatchesStep(tree, th) ==
    LET fr == th.stack[Len(th.stack)]
        n == NodeAt(tree, fr.path)
    IN  CASE n.kind = "Name" ->
               IF fr.i > Len(th.tags) THEN Return(th, FALSE)
               ELSE IF TagName(th.tags[fr.i]) = n.Name THEN Return(th, TRUE)
               ELSE Advance(th)
          [] n.kind = "Comparinson" ->
               IF fr.i > Len(th.tags) THEN Return(th, FALSE)
               ELSE IF TagName(th.tags[fr.i]) = n.Name /\ CompareTag(n, th.tags[fr.i]).decided
                    THEN Return(th, CompareTag(n, th.tags[fr.i]).result)
                    ELSE Advance(th)
          [] n.kind = "And" ->
               IF th.ret.has
               THEN IF ~th.ret.val THEN Return(th, FALSE) ELSE Advance(th)
               ELSE IF fr.i > Len(n.Filters) THEN Return(th, TRUE) ELSE CallChild(th)
          [] n.kind = "Or" ->
               IF th.ret.has
               THEN IF th.ret.val THEN Return(th, TRUE) ELSE Advance(th)
               ELSE IF fr.i > Len(n.Filters) THEN Return(th, FALSE) ELSE CallChild(th)

\* TreeAfterStep for a NameFilter.Matches that keeps the name of the tag it
\* looks at in the Name field of its node
TreeAfterStepNameScratch(tree, th) ==
    LET fr == th.stack[Len(th.stack)]
        n == NodeAt(tree, fr.path)
    IN  IF n.kind = "Name" /\ fr.i <= Len(th.tags)
        THEN SetAt(tree, fr.path, [n EXCEPT !.Name = TagName(th.tags[fr.i])])
        ELSE tree

\* the shared tree after a step of a call: no Matches method assigns to a
\* field of its receiver or to an element of a slice
TreeAfterStep(tree, th) == tree

\* TagsAfterStep: likewise for the tag list the call was given
TagsAfterStep(tree, th) == th.tags

ConcIdle ==
    /\ shTree = NilFilter
    /\ thr = [t \in Threads |-> IdleThread]

\* every goroutine is given a tag list of its own, no two the same one
ConcInit ==
    /\ shTree \in ConcTrees
    /\ thr \in {f \in [Threads -> {CallOf(l) : l \in ConcTagLists}] :
                   \A t, u \in Threads : t # u => f[t].tags # f[u].tags}

\* one goroutine takes one step of its call
ConcStep ==
    /\ \E t \in Threads :
        /\ thr[t].stack # <<>>
        /\ thr' = [thr EXCEPT ![t] = [MatchesStep(shTree, thr[t])
                                        EXCEPT !.tags = TagsAfterStep(shTree, thr[t])]]
        /\ shTree' = TreeAfterStep(shTree, thr[t])
    /\ UNCHANGED <<parseVars, storeVars, evalVars, cmpVars>>

-----------------------------------------------------------------------------
(* Specifications *)

\* the parser on every token stream of the bound
Init == ParseInit /\ StoreInit /\ EvalIdle /\ ConcIdle /\ CmpIdle

Next == yystack \/ yynewstate \/ yydefault

Spec == Init /\ [][Next]_vars

\* yyParse runs on one goroutine that nothing suspends: a step it can take, it takes
FairSpec == Spec /\ WF_vars(Next)

\* the storage provider under every sequence of calls
StoreNext ==
    \/ CallGetFile
    \/ CallGetFileForPath
    \/ CallGetAllFiles
    \/ CallGetTags
    \/ CallGetMatchingFiles
    \/ CallUpdateTag
    \/ CallRemoveTag
    \/ CallUpdateFile
    \/ CallRemoveFile

StoreSpec == Init /\ [][StoreNext]_vars

\* Matches on every filter and tag list of the bound
EvalSpecInit == ParseInit /\ StoreInit /\ EvalInit /\ ConcIdle /\ CmpIdle

EvalNext == Evaluate

EvalSpec == EvalSpecInit /\ [][EvalNext]_vars

\* the commands of tagger-cli, one run after another on one database
CliNext ==
    \/ CmdAddFile
    \/ CmdRemoveFile
    \/ CmdMoveFile
    \/ CmdSetTag
    \/ CmdUnsetTag
    \/ CmdGet

CliSpec == Init /\ [][CliNext]_vars

\* a comparator made and the filter holding it evaluated
CmpSpecInit == ParseInit /\ StoreInit /\ ConcIdle /\ CmpInit

CmpNext == CallComparatorFromString \/ ConvertComparator \/ Evaluate

CmpSpec == CmpSpecInit /\ [][CmpNext]_vars

\* concurrent calls of Matches on one tree, under every interleaving
ConcSpecInit == ParseInit /\ StoreInit /\ EvalIdle /\ ConcInit /\ CmpIdle

ConcNext == ConcStep

ConcSpec == ConcSpecInit /\ [][ConcNext]_vars

\* the commands add, set and get, the name given to set being any text
NameNext ==
    \/ CmdAddFile
    \/ CmdSetTagAnyName
    \/ CmdGet

NameSpec == Init /\ [][NameNext]_vars

-----------------------------------------------------------------------------
(* Claims about the parser, checked under Spec *)

\* yyParse has returned
ParseDone == pc \in {"ret0", "ret1"}

\* the tokens read are operands TAG joined by the connective op, n >= 2 of them
IsChain(toks, op) ==
    /\ Len(toks) >= 3
    /\ Len(toks) % 2 = 1
    /\ \A i \in 1..Len(toks) : toks[i].char = (IF i % 2 = 1 THEN TAG ELSE op)

\* the token stream read is a complete expr followed by end-of-input
InGrammar == eof /\ DerivesExpr(Kinds(consumed))

\* C1: parsing `a AND b OR c` yields a tree that is true on {a, b}, true on {c}
\* and false on {a}, i.e. AND binds tighter than OR.
C1_AndBindsTighterThanOr ==
    ( /\ pc = "ret0"
      /\ Kinds(consumed) = <<TAG, AND, TAG, OR, TAG>>
      /\ consumed[1].tag = "a" /\ consumed[3].tag = "b" /\ consumed[5].tag = "c" )
    => /\ Matches(lexFilter, <<NewNamedTag("a"), NewNamedTag("b")>>)
       /\ Matches(lexFilter, <<NewNamedTag("c")>>)
       /\ ~Matches(lexFilter, <<NewNamedTag("a")>>)

\* C2: a chain of n operands joined by AND parses to one AndFilter with n
\* children none of which is an AndFilter, and likewise for OR.
C2_ChainsAreFlattened ==
    /\ (pc = "ret0" /\ IsChain(consumed, AND))
        => /\ lexFilter.kind = "And"
           /\ Len(lexFilter.Filters) = (Len(consumed) + 1) \div 2
           /\ \A i \in DOMAIN lexFilter.Filters : lexFilter.Filters[i].kind # "And"
    /\ (pc = "ret0" /\ IsChain(consumed, OR))
        => /\ lexFilter.kind = "Or"
           /\ Len(lexFilter.Filters) = (Len(consumed) + 1) \div 2
           /\ \A i \in DOMAIN lexFilter.Filters : lexFilter.Filters[i].kind # "Or"

\* C3: whenever yyParse has ended on a token stream that is not a complete expr
\* followed by end-of-input, it has returned 1 after exactly one call of Error;
\* it never ends any other way than by returning 0 or 1.
C3_DeviationsRejected ==
    /\ pc \in {"yystack", "yynewstate", "yydefault", "ret0", "ret1"}
    /\ (ParseDone /\ ~InGrammar) => (pc = "ret1" /\ errCalls = 1 /\ Nerrs = 1)

\* C3 witness: `( )` has been read and rejected with a syntax error.
C3_EmptyParensRejected ==
    /\ pc = "ret1"
    /\ errCalls = 1
    /\ Kinds(consumed) = <<LPAREN, RPAREN>>

\* C4: when yyParse returns 1 the goal action has not executed and the lexer's
\* result field holds no filter.
C4_FailedParseStoresNoFilter ==
    pc = "ret1" => (goalRuns = 0 /\ lexFilter = NilFilter)

-----------------------------------------------------------------------------
(* Claims about the storage provider, checked under StoreSpec *)

DBNext == [files |-> fileTbl', tags |-> tagTbl']

Range(seq) == {seq[i] : i \in DOMAIN seq}

\* the tag lists GetTags can return for f on db, one per order of the rows
TagListsOf(db, f) ==
    {GetTags(db, f, o, FALSE).tags : o \in Orders(TagRowsOf(db, f))}

\* the tags of f on db, as a set
TagSetOf(db, f) == {TagOfRow(r) : r \in TagRowsOf(db, f)}

\* the scenario of the end-to-end test: F1 {role=1, status}, F2 {role=2}
ScenarioF1 == NewFile("u1", "p1")
ScenarioF2 == NewFile("u2", "p2")
ScenarioFilter == OrFilter(<<ComparinsonFilter("role", 1, Equals), NameFilter("status")>>)
ScenarioStored ==
    /\ fileTbl = {FileRow("u1", "p1"), FileRow("u2", "p2")}
    /\ tagTbl = {TagRow("u1", "role", TRUE, 1), TagRow("u1", "status", FALSE, 0),
                 TagRow("u2", "role", TRUE, 2)}

\* C5: a GetMatchingFiles in which no fetch fails returns no error and, once
\* each, exactly the stored files whose tags match the filter, whatever the
\* order the files and the tags come in; on F1 {role=1, status}, F2 {role=2}
\* the filter `role == 1 OR status` returns exactly [F1].
C5_MatchingFilesAreTheMatches ==
    (last.op = "GetMatchingFiles" /\ last.fault = 0) =>
        /\ last.err = ErrNil
        /\ \A i, j \in DOMAIN last.out : last.out[i] = last.out[j] => i = j
        /\ Range(last.out) \subseteq fileTbl
        /\ \A f \in fileTbl :
              /\ f \in Range(last.out) <=>
                     \E tags \in TagListsOf(DB, f) : Matches(last.filter, tags)
              /\ f \in Range(last.out) <=>
                     \A tags \in TagListsOf(DB, f) : Matches(last.filter, tags)
        /\ (ScenarioStored /\ last.filter = ScenarioFilter) => last.out = <<ScenarioF1>>

\* C5 witness: the scenario is stored and the filter has returned [F1].
C5_ScenarioReturnsF1 ==
    /\ ScenarioStored
    /\ last.op = "GetMatchingFiles"
    /\ last.filter = ScenarioFilter
    /\ last.err = ErrNil
    /\ last.out = <<ScenarioF1>>

\* C6: a successful UpdateTag(f, t) leaves exactly one tag named t.Name on f,
\* equal to t, in every list GetTags(f) can return, and changes no other tag
\* row and no file row.
C6_UpdateTagIsUpsert ==
    [][ (last'.op = "UpdateTag" /\ last'.err = ErrNil) =>
          LET f == last'.file
              t == last'.tags[1]
          IN  /\ \A tags \in TagListsOf(DBNext, f) :
                    /\ Cardinality({i \in DOMAIN tags : TagName(tags[i]) = TagName(t)}) = 1
                    /\ \A i \in DOMAIN tags : TagName(tags[i]) = TagName(t) => tags[i] = t
              /\ {r \in tagTbl' : ~(r.uuid = f.uuid /\ r.name = TagName(t))}
                    = {r \in tagTbl : ~(r.uuid = f.uuid /\ r.name = TagName(t))}
              /\ fileTbl' = fileTbl ]_vars

\* C6 witness: UpdateTag has put the Plain tag role on u1, which carried a tag
\* role already and carries status too.
C6_PlainRoleStored ==
    /\ last.op = "UpdateTag"
    /\ last.err = ErrNil
    /\ last.file.uuid = "u1"
    /\ last.tags = <<NewNamedTag("role")>>
    /\ last.before.named
    /\ last.before.ntags = 2
    /\ TagSetOf(DB, last.file) = {NewNamedTag("role"), NewNamedTag("status")}

\* C7: after a successful UpdateFile(f, tags), GetFile(f.id) returns f and the
\* tags of f are exactly the collection tags.
C7_UpdateFileSetsFullTagCollection ==
    (last.op = "UpdateFile" /\ last.err = ErrNil) =>
        /\ GetFile(DB, last.file.uuid, FALSE) = [err |-> ErrNil, file |-> last.file]
        /\ TagSetOf(DB, last.file) = Range(last.tags)

\* C8: after a successful RemoveFile(f), GetFile(f.id) and GetFileForPath(f.path)
\* fail with ErrNoFile, no tag of f is left, and the records and tags of the
\* other files are as before.
C8_RemoveFileCascades ==
    [][ (last'.op = "RemoveFile" /\ last'.err = ErrNil) =>
          LET f == last'.file
          IN  /\ GetFile(DBNext, f.uuid, FALSE).err = ErrNoFile
              /\ GetFileForPath(DBNext, f.path, FALSE).err = ErrNoFile
              /\ TagRowsOf(DBNext, f) = {}
              /\ {r \in fileTbl' : r.uuid # f.uuid} = {r \in fileTbl : r.uuid # f.uuid}
              /\ {r \in tagTbl' : r.uuid # f.uuid} = {r \in tagTbl : r.uuid # f.uuid} ]_vars

\* C8 as amended: after a successful RemoveFile(f), GetFile(f.id) fails with
\* ErrNoFile, no tag of f is left, the records and tags of the other files are
\* as before, and GetFileForPath(f.path) fails with ErrNoFile when f was the
\* record storage held (f.path the path registered for f.id).
C8_RemoveFileCascadesForStoredRecord ==
    [][ (last'.op = "RemoveFile" /\ last'.err = ErrNil) =>
          LET f == last'.file
          IN  /\ GetFile(DBNext, f.uuid, FALSE).err = ErrNoFile
              /\ FileRow(f.uuid, f.path) \in fileTbl
                    => GetFileForPath(DBNext, f.path, FALSE).err = ErrNoFile
              /\ TagRowsOf(DBNext, f) = {}
              /\ {r \in fileTbl' : r.uuid # f.uuid} = {r \in fileTbl : r.uuid # f.uuid}
              /\ {r \in tagTbl' : r.uuid # f.uuid} = {r \in tagTbl : r.uuid # f.uuid} ]_vars

\* C8 witness: RemoveFile has removed the stored record u1 at p1 and its two
\* tags; u2 at p2 and its tag are what storage holds.
C8_StoredFileWithTagsRemoved ==
    /\ last.op = "RemoveFile"
    /\ last.err = ErrNil
    /\ last.file = NewFile("u1", "p1")
    /\ last.before.stored
    /\ last.before.ntags = 2
    /\ fileTbl = {FileRow("u2", "p2")}
    /\ tagTbl = {TagRow("u2", "role", TRUE, 2)}

\* C14: when GetAllFiles fails, or the tag fetch of one of the files fails,
\* GetMatchingFiles returns that error and no file list, and the failed call is
\* the last one it makes: no file after the failing one has its tags fetched.
C14_MatchingFilesFailFast ==
    (last.op = "GetMatchingFiles" /\ last.fault > 0) =>
        /\ last.err = ErrDriver
        /\ last.out = <<>>
        /\ last.fetched = last.fault - 1

\* C14 witness: with two files stored the tag fetch of the first file failed;
\* the call returned the error and no list, and went on to no second file.
C14_FirstFetchFailsOfTwo ==
    /\ last.op = "GetMatchingFiles"
    /\ Cardinality(fileTbl) = 2
    /\ last.fault = 2
    /\ last.fetched = 1
    /\ last.err = ErrDriver
    /\ last.out = <<>>

\* C16: a GetFile(id) or GetFileForPath(path) whose query the driver answers
\* returns ErrNoFile exactly when no file row has that identifier (path), and
\* otherwise no error and the stored row with that identifier (path); neither
\* call, failed or not, changes a row of either table.
C16_LookupsFindExactlyTheStored ==
    [][ /\ (last'.op = "GetFile" /\ last'.fault = 0) =>
              LET rows == {r \in fileTbl : r.uuid = last'.key}
              IN  /\ last'.err = ErrNoFile <=> rows = {}
                  /\ rows # {} => /\ last'.err = ErrNil
                                  /\ last'.out.uuid = last'.key
                                  /\ FileRow(last'.out.uuid, last'.out.path) \in fileTbl
        /\ (last'.op = "GetFileForPath" /\ last'.fault = 0) =>
              LET rows == {r \in fileTbl : r.path = last'.key}
              IN  /\ last'.err = ErrNoFile <=> rows = {}
                  /\ rows # {} => /\ last'.err = ErrNil
                                  /\ last'.out.path = last'.key
                                  /\ FileRow(last'.out.uuid, last'.out.path) \in fileTbl
        /\ last'.op \in {"GetFile", "GetFileForPath"} =>
              /\ fileTbl' = fileTbl
              /\ tagTbl' = tagTbl ]_vars

\* C16 witness: with u1 stored at p1 and nothing at p2, GetFileForPath(p2) has
\* returned ErrNoFile.
C16_AbsentPathBesideStoredFile ==
    /\ last.op = "GetFileForPath"
    /\ last.key = "p2"
    /\ last.fault = 0
    /\ last.err = ErrNoFile
    /\ FileRow("u1", "p1") \in fileTbl
    /\ ~\E r \in fileTbl : r.path = "p2"

\* C17: a RemoveTag the driver does not fail returns no error; when the file
\* carries no tag of that name no row of either table changes, and when it does
\* the one row (file, name) is gone and every other row is as before. No
\* RemoveTag returns ErrNoTag.
C17_RemoveTagRemovesOneOrNothing ==
    [][ last'.op = "RemoveTag" =>
          LET f == last'.file
              n == TagName(last'.tags[1])
              named == {r \in tagTbl : r.uuid = f.uuid /\ r.name = n}
          IN  /\ last'.err # ErrNoTag
              /\ last'.fault = 0 =>
                    /\ last'.err = ErrNil
                    /\ fileTbl' = fileTbl
                    /\ tagTbl' = tagTbl \ named
                    /\ Cardinality(named) <= 1
                    /\ named = {} => tagTbl' = tagTbl ]_vars

\* C17 witness: RemoveTag(u1, status) on a file u1 that carries role only has
\* returned no error, and role is still the one tag of u1.
C17_AbsentStatusRemovedFromRoleOnly ==
    /\ last.op = "RemoveTag"
    /\ last.file.uuid = "u1"
    /\ last.tags = <<NewNamedTag("status")>>
    /\ last.fault = 0
    /\ last.err = ErrNil
    /\ ~last.before.named
    /\ last.before.ntags = 1
    /\ {r.name : r \in {t \in tagTbl : t.uuid = "u1"}} = {"role"}

\* C26: in every state storage reaches by calls of UpdateFile, UpdateTag,
\* RemoveTag and RemoveFile, failed ones included, every tag row has its file
\* row, no two file rows share an identifier or a path, no two tag rows share
\* (file, name), and the tags GetTags returned have names all different.
C26_StorageKeepsKeysAndReferences ==
    /\ \A r \in tagTbl : \E f \in fileTbl : f.uuid = r.uuid
    /\ \A f, g \in fileTbl : (f.uuid = g.uuid \/ f.path = g.path) => f = g
    /\ \A r, q \in tagTbl : (r.uuid = q.uuid /\ r.name = q.name) => r = q
    /\ (last.op = "GetTags" /\ last.err = ErrNil) =>
          \A i, j \in DOMAIN last.out :
              i # j => TagName(last.out[i]) # TagName(last.out[j])

\* C26 witness: with two files stored, one of them tagged, an UpdateFile that
\* would have replaced the tagged file's record has failed on the constraint.
C26_ReplacementOfTaggedFileRefused ==
    /\ last.op = "UpdateFile"
    /\ last.err = ErrConstraint
    /\ last.file = NewFile("u2", "p1")
    /\ fileTbl = {FileRow("u1", "p1"), FileRow("u2", "p2")}
    /\ \E r \in tagTbl : r.uuid = "u1"

\* C27: a call UpdateFile(f, tags), whatever it returns, leaves the record and
\* the tags of every file whose identifier is not f's as they were, f's path
\* being the path registered for such a file included.
C27_UpdateFileTouchesOnlyItsFile ==
    [][ last'.op = "UpdateFile" =>
          /\ {r \in fileTbl' : r.uuid # last'.file.uuid}
                = {r \in fileTbl : r.uuid # last'.file.uuid}
          /\ {r \in tagTbl' : r.uuid # last'.file.uuid}
                = {r \in tagTbl : r.uuid # last'.file.uuid} ]_vars

-----------------------------------------------------------------------------
(* Claims about the commands, checked under CliSpec *)

\* the commands that resolve a file argument, with the arguments they require
ResolvingCommands == {"removeFile", "moveFile", "setTag", "unsetTag", "get"}

Required(op) == IF op \in {"removeFile", "get"} THEN 1 ELSE 2

\* C15: a command that resolves its file argument to a file that storage does
\* not hold returns ErrNoFile and changes no row of either table.
C15_AbsentFileIsReported ==
    [][ ( /\ last'.op \in ResolvingCommands
          /\ last'.nargs >= Required(last'.op)
          /\ getFileFromArg(DB, last'.arg).err = ErrNoFile )
        => /\ last'.err = ErrNoFile
           /\ fileTbl' = fileTbl
           /\ tagTbl' = tagTbl ]_vars

\* C18: a successful moveFile of a stored file to dst leaves a file row with the
\* same identifier and the path dst, the same tag rows for that identifier, and
\* (dst being another path than the one the file had) no row with the old path.
C18_MoveKeepsIdentityAndTags ==
    [][ ( /\ last'.op = "moveFile"
          /\ last'.nargs >= 2
          /\ last'.err = ErrNil )
        => LET g == getFileFromArg(DB, last'.arg)
           IN  /\ g.err = ErrNil
               /\ FileRow(g.file.uuid, last'.dst) \in fileTbl'
               /\ \A r \in fileTbl' : r.uuid = g.file.uuid => r.path = last'.dst
               /\ {r \in tagTbl' : r.uuid = g.file.uuid}
                     = {r \in tagTbl : r.uuid = g.file.uuid}
               /\ last'.dst # g.file.path =>
                     ~\E r \in fileTbl' : r.path = g.file.path ]_vars

\* C18 witness: u1, carrying role=1 and status, has been moved by its path to
\* p2, where it is stored now with both tags.
C18_TaggedFileMovedByPath ==
    /\ last.op = "moveFile"
    /\ last.arg = FileArg("", "p1")
    /\ last.dst = "p2"
    /\ last.err = ErrNil
    /\ FileRow("u1", "p2") \in fileTbl
    /\ {r \in tagTbl : r.uuid = "u1"}
          = {TagRow("u1", "role", TRUE, 1), TagRow("u1", "status", FALSE, 0)}

-----------------------------------------------------------------------------
(* Claims about Matches, checked under EvalSpec *)

\* the relation a valid comparator stands for, FALSE for any other value
Relation(fn, v, c) ==
    \/ fn = Equals /\ v = c
    \/ fn = NotEquals /\ v # c
    \/ fn = LessThan /\ v < c
    \/ fn = GreaterThan /\ v > c
    \/ fn = LessThanOrEqual /\ v <= c
    \/ fn = GreaterThanOrEqual /\ v >= c

\* the indices of the entries of the tag list named as the filter
NamedEntries == {i \in DOMAIN evTags : TagName(evTags[i]) = evFilter.Name}

FirstNamed == CHOOSE i \in NamedEntries : \A j \in NamedEntries : i <= j

\* C9: a ComparinsonFilter is decided by the first entry named as the filter:
\* false when there is none, false when that entry is Plain (whatever comes
\* later), else the operator applied to that entry's value and the literal.
C9_FirstMatchDecides ==
    (evDone /\ evFilter.kind = "Comparinson") =>
        evResult = ( /\ NamedEntries # {}
                     /\ HasValue(evTags[FirstNamed])
                     /\ Relation(evFilter.Function, evTags[FirstNamed].value, evFilter.Value) )

\* C9 witness: `x >= 1` was evaluated to false on the list [x, x=1].
C9_PlainFirstThenSatisfyingValue ==
    /\ evDone
    /\ evFilter = ComparinsonFilter("x", 1, GreaterThanOrEqual)
    /\ evTags = <<NewNamedTag("x"), NewValueTag("x", 1)>>
    /\ evResult = FALSE

\* C10: a ComparinsonFilter is false on every tag list whose entries named as
\* the filter are all Plain, for every operator and every literal, -1 included.
C10_PlainTagNeverCompares ==
    ( /\ evDone
      /\ evFilter.kind = "Comparinson"
      /\ NamedEntries # {}
      /\ \A i \in NamedEntries : ~HasValue(evTags[i]) )
    => evResult = FALSE

\* C10 witness: `x == -1` was evaluated to false on the list [x].
C10_SentinelLiteralOnPlainTag ==
    /\ evDone
    /\ evFilter = ComparinsonFilter("x", -1, Equals)
    /\ evTags = <<NewNamedTag("x")>>
    /\ evResult = FALSE

\* C11: on the tag list holding the one Valued tag (name, v), a ComparinsonFilter
\* with one of the six operators is the relation v op c of the integers.
C11_ComparatorIsTheRelation ==
    ( /\ evDone
      /\ evFilter.kind = "Comparinson"
      /\ evFilter.Function \in Equals..GreaterThanOrEqual
      /\ Len(evTags) = 1
      /\ HasValue(evTags[1])
      /\ TagName(evTags[1]) = evFilter.Name )
    => evResult = Relation(evFilter.Function, evTags[1].value, evFilter.Value)

\* C11 witness: `x <= 1` was evaluated to true on the list [x=1].
C11_LessOrEqualOnEqualValue ==
    /\ evDone
    /\ evFilter = ComparinsonFilter("x", 1, LessThanOrEqual)
    /\ evTags = <<NewValueTag("x", 1)>>
    /\ evResult = TRUE

\* C12: a NameFilter is true exactly when some entry of the tag list has the
\* filter's name, Plain or Valued, whatever its value.
C12_NameFilterIsPresence ==
    (evDone /\ evFilter.kind = "Name") =>
        evResult = (\E i \in DOMAIN evTags : TagName(evTags[i]) = evFilter.Name)

\* C12 witness: presence of x was evaluated to true on the list [x=1].
C12_PresenceOfValuedTag ==
    /\ evDone
    /\ evFilter = NameFilter("x")
    /\ evTags = <<NewValueTag("x", 1)>>
    /\ evResult = TRUE

\* the filter and every filter nested in it
RECURSIVE Subfilters(_)
Subfilters(f) ==
    IF f.kind \in {"And", "Or"}
    THEN {f} \cup UNION {Subfilters(f.Filters[i]) : i \in DOMAIN f.Filters}
    ELSE {f}

\* C13: the evaluated filter, and every connective nested in it at any depth,
\* is true exactly when all (AndFilter) or some (OrFilter) of its children are.
C13_ConnectivesAreAllAndSome ==
    evDone =>
        /\ evResult = Matches(evFilter, evTags)
        /\ \A g \in Subfilters(evFilter) :
              /\ g.kind = "And" =>
                    ( Matches(g, evTags)
                        = (\A i \in DOMAIN g.Filters : Matches(g.Filters[i], evTags)) )
              /\ g.kind = "Or" =>
                    ( Matches(g, evTags)
                        = (\E i \in DOMAIN g.Filters : Matches(g.Filters[i], evTags)) )

\* C13 witness: an AndFilter whose first child is true and whose second child, an
\* OrFilter with no true child, is false was evaluated to false.
C13_AndOverFalseOr ==
    /\ evDone
    /\ evFilter = AndFilter(<<NameFilter("x"),
                              OrFilter(<<NameFilter("y"),
                                         ComparinsonFilter("x", 1, GreaterThanOrEqual)>>)>>)
    /\ evTags = <<NewValueTag("x", 0)>>
    /\ evResult = FALSE

-----------------------------------------------------------------------------
(* Claims about the trees yyParse builds, checked under Spec *)

\* the sequence of token kinds is the beginning of a sentence of the bound
ViablePrefix(ks) ==
    \E t \in Sentences : Len(t) >= Len(ks) /\ SubSeq(t, 1, Len(ks)) = ks

\* C19: on every sentence of the grammar followed by end-of-input yyParse
\* returns 0 with no call of Error and exactly one run of the goal action,
\* which leaves a filter in the lexer; and it gives up on no token stream
\* that is still the beginning of a sentence.
C19_SentencesAreAccepted ==
    /\ (ParseDone /\ eof /\ Kinds(consumed) \in Sentences) =>
          /\ pc = "ret0"
          /\ errCalls = 0
          /\ Nerrs = 0
          /\ goalRuns = 1
          /\ lexFilter # NilFilter
    /\ (ParseDone /\ ~eof) => (pc = "ret1" /\ ~ViablePrefix(Kinds(consumed)))
    /\ pc # "panic"

\* C19 witness: `( a AND b )`, a parenthesised conjunction of two
\* operands has been accepted.
C19_ParenthesisedConjunctionAccepted ==
    /\ pc = "ret0"
    /\ eof
    /\ Kinds(consumed) = <<LPAREN, TAG, AND, TAG, RPAREN>>
    /\ goalRuns = 1
    /\ errCalls = 0

\* every node of the tree is a NameFilter, a ComparinsonFilter, or an AndFilter
\* or OrFilter with at least 2 children
TwoOrMoreChildren(f) ==
    \A g \in Subfilters(f) :
        /\ g.kind \in {"Name", "Comparinson", "And", "Or"}
        /\ g.kind \in {"And", "Or"} => Len(g.Filters) >= 2

\* C20: the tree a successful yyParse leaves has at least 2 children in every
\* AndFilter and OrFilter, and the reduction of `( e )` hands on the tree of e
\* as it is.
C20_NodesHaveTwoChildrenParensNone ==
    [][ /\ pc' = "ret0" => TwoOrMoreChildren(lexFilter')
        /\ (pc = "yydefault" /\ reduced' = Append(reduced, 7)) =>
              /\ Len(yyS) >= 3
              /\ yyVAL'.filter = yyS[Len(yyS) - 1].filter ]_vars

\* C20 witness: `( a AND b )` has been accepted and the tree is the AndFilter
\* of a and b.
C20_ParenthesisedPairIsThePair ==
    /\ pc = "ret0"
    /\ Kinds(consumed) = <<LPAREN, TAG, AND, TAG, RPAREN>>
    /\ consumed[2].tag = "a"
    /\ consumed[4].tag = "b"
    /\ lexFilter = AndFilter(<<NameFilter("a"), NameFilter("b")>>)

\* C21: on `a AND` followed by end-of-input yyParse returns 1 and the one call
\* of Error is made with end-of-input as the lookahead; while `a`, or `a AND`,
\* has been read and end-of-input has not, Error has not been called.
C21_ErrorAtEndOfInput ==
    /\ (ParseDone /\ eof /\ Kinds(consumed) = <<TAG, AND>>) =>
          /\ pc = "ret1"
          /\ errCalls = 1
          /\ errAt = yyEofCode
    /\ (~eof /\ Kinds(consumed) \in {<<TAG>>, <<TAG, AND>>}) =>
          /\ errCalls = 0
          /\ pc # "ret1"

\* C21 witness: `a AND` has been read, end-of-input was the lookahead when
\* Error was called, and yyParse has returned 1.
C21_DanglingAndRejectedAtEnd ==
    /\ pc = "ret1"
    /\ eof
    /\ Kinds(consumed) = <<TAG, AND>>
    /\ consumed[1].tag = "a"
    /\ errCalls = 1
    /\ errAt = yyEofCode

-----------------------------------------------------------------------------
(* Claim about tag names, checked under NameSpec *)

\* C22: no tag has the empty name: not the tag a successful set command made
\* with NewNamedTag / NewValueTag and stored through UpdateTag, not a row of
\* the tags table, not a tag GetTags returned to the get command.
C22_NoEmptyTagName ==
    /\ (last.op = "setTag" /\ last.nargs >= 2 /\ last.err = ErrNil) =>
          TagName(last.tags[1]) # ""
    /\ \A r \in tagTbl : r.name # ""
    /\ last.op = "get" => \A i \in DOMAIN last.out : TagName(last.out[i]) # ""

\* the children of a connective from index i on, each child of the connective's
\* own kind replaced by its children
RECURSIVE SplicedFrom(_, _)
SplicedFrom(g, i) ==
    IF i > Len(g.Filters) THEN <<>>
    ELSE (IF g.Filters[i].kind = g.kind THEN g.Filters[i].Filters ELSE <<g.Filters[i]>>)
            \o SplicedFrom(g, i + 1)

Spliced(g) == [g EXCEPT !.Filters = SplicedFrom(g, 1)]

\* a connective with a child of its own kind
Nests(g) ==
    /\ g.kind \in {"And", "Or"}
    /\ \E i \in DOMAIN g.Filters : g.Filters[i].kind = g.kind

\* C28: for the evaluated filter and every connective nested in it, replacing
\* the children that are connectives of the same kind by their own children, in
\* place, gives a filter with the same Matches on the tag list; the result
\* returned is that of the evaluated filter so flattened.
C28_NestingDoesNotChangeMatches ==
    evDone =>
        /\ \A g \in Subfilters(evFilter) :
              Nests(g) => Matches(Spliced(g), evTags) = Matches(g, evTags)
        /\ Nests(evFilter) => evResult = Matches(Spliced(evFilter), evTags)

\* C28 witness: And{x, And{y, x >= 1}} was evaluated to false on [x=0, y], as
\* the flat And{x, y, x >= 1} is, its third child being the false one.
C28_RightNestedAndFalseOnThird ==
    /\ evDone
    /\ evFilter = AndFilter(<<NameFilter("x"),
                              AndFilter(<<NameFilter("y"),
                                          ComparinsonFilter("x", 1, GreaterThanOrEqual)>>)>>)
    /\ Spliced(evFilter) = AndFilter(<<NameFilter("x"), NameFilter("y"),
                                       ComparinsonFilter("x", 1, GreaterThanOrEqual)>>)
    /\ evTags = <<NewValueTag("x", 0), NewNamedTag("y")>>
    /\ evResult = FALSE

\* no two entries of the tag list have the same name
UniqueNames(tags) ==
    \A i, j \in DOMAIN tags : i # j => TagName(tags[i]) # TagName(tags[j])

\* the tag lists with the entries of the given one in any order
Reorderings(tags) ==
    { [i \in DOMAIN tags |-> tags[p[i]]] :
        p \in {q \in [DOMAIN tags -> DOMAIN tags] :
                  \A i, j \in DOMAIN tags : i # j => q[i] # q[j]} }

\* C24: on a tag list with at most one entry per name, a ComparinsonFilter is
\* true exactly when some entry has the filter's name, is Valued and its value
\* satisfies the operator against the literal; and Matches of any filter tree
\* gives the same result on every reordering of the list.
C24_SetLevelOnUniqueNames ==
    (evDone /\ UniqueNames(evTags)) =>
        /\ evFilter.kind = "Comparinson" =>
              evResult = (\E i \in DOMAIN evTags :
                              /\ TagName(evTags[i]) = evFilter.Name
                              /\ HasValue(evTags[i])
                              /\ Relation(evFilter.Function, evTags[i].value, evFilter.Value))
        /\ \A l \in Reorderings(evTags) : Matches(evFilter, l) = evResult

\* C24 witness: `x >= 1` was evaluated to true on the list [y, x=1], whose
\* satisfying entry is not the first.
C24_SatisfyingEntrySecond ==
    /\ evDone
    /\ evFilter = ComparinsonFilter("x", 1, GreaterThanOrEqual)
    /\ evTags = <<NewNamedTag("y"), NewValueTag("x", 1)>>
    /\ evResult = TRUE

-----------------------------------------------------------------------------
(* Claim about comparators, checked under CmpSpec *)

\* C25: ComparatorFromString returns one of the six valid comparators for each
\* of the six symbols, a different one for each symbol, and Invalid for every
\* other string; a ComparinsonFilter whose Function is Invalid or any other
\* value outside the six is false on every tag list.
C25_OnlySixComparators ==
    /\ cfsDone =>
          /\ cfsVal \in ComparatorSymbols =>
                /\ cfsRet \in Equals..GreaterThanOrEqual
                /\ \A s \in ComparatorSymbols \ {cfsVal} : ComparatorFromString(s) # cfsRet
          /\ cfsVal \notin ComparatorSymbols => cfsRet = Invalid
    /\ (evDone /\ evFilter.Function \notin Equals..GreaterThanOrEqual) => evResult = FALSE

\* C25 witness: "=" was made Invalid, and the filter holding it with the
\* literal 1 was evaluated to false on the list [x=1].
C25_SingleEqualsMatchesNothing ==
    /\ cfsDone
    /\ cfsVal = "="
    /\ cfsRet = Invalid
    /\ evDone
    /\ evFilter = ComparinsonFilter("x", 1, Invalid)
    /\ evTags = <<NewValueTag("x", 1)>>
    /\ evResult = FALSE

-----------------------------------------------------------------------------
(* Claim about concurrent evaluation, checked under ConcSpec *)

\* C23: no step of a call of Matches changes the shared tree or the tag list of
\* any call, and under every interleaving a call that returns has returned
\* what Matches returns on the tree and its tag list when run alone.
C23_ConcurrentMatchesAsAlone ==
    [][ /\ shTree' = shTree
        /\ \A t \in Threads :
              /\ thr'[t].tags = thr[t].tags
              /\ thr'[t].done => thr'[t].result = Matches(shTree, thr[t].tags) ]_vars

\* C23 witness: both calls have returned on the nested tree, one call TRUE and
\* the other FALSE, the tree being as it was.
C23_BothReturnedDifferently ==
    /\ shTree = AndFilter(<<NameFilter("y"),
                            OrFilter(<<NameFilter("x"),
                                       ComparinsonFilter("y", 0, LessThan)>>)>>)
    /\ thr["g1"].done
    /\ thr["g2"].done
    /\ thr["g1"].result # thr["g2"].result

-----------------------------------------------------------------------------
(* Claim about the termination of yyParse, checked under FairSpec *)

\* the state of the tables has a shift on the error token
ShiftsError(state) ==
    LET yyn == At(yyPact, state) + yyErrCode
    IN  yyn >= 0 /\ yyn < yyLast /\ At(yyChk, At(yyAct, yyn)) = yyErrCode

\* C29: on every token stream, which ends in end-of-input returned for ever,
\* yyParse comes to return 0 or 1; it calls Error at most once; the step that
\* calls Error is followed by the return of 1 with no step between; and no state
\* of the tables has a shift on the error token.
C29_ParseTerminates ==
    /\ <>ParseDone
    /\ [](errCalls <= 1)
    /\ [][errCalls' # errCalls => pc' = "ret1"]_vars
    /\ [](\A state \in 0..(Len(yyPact) - 1) : ~ShiftsError(state))

\* C29 witness: yyParse has returned 1 after reductions and one call of Error,
\* every token the stream may hold read and the whole stack searched.
C29_ErrorAfterReductionsReturnsOne ==
    /\ pc = "ret1"
    /\ errCalls = 1
    /\ Len(consumed) = MaxToks
    /\ Len(reduced) > 0
    /\ yyS = <<>>

=============================================================================
